---- MODULE Spec2Model ----
(***************************************************************************)
(* Message-as-database leaderboard: the update parser (parser.js), the      *)
(* state codec, merge and ranking (storage.js), the renderer and overflow   *)
(* degrader (renderer.js) and the sync cycle (sync.js).                     *)
(*                                                                          *)
(* Texts are TLA+ strings handled with Len, \o and SubSeq, so the codec's   *)
(* substring search, line and field splitting are computed character by     *)
(* character as the JavaScript does.  JavaScript indices are 0-based; the   *)
(* helpers below keep the JavaScript conventions (IndexOf returns -1 when   *)
(* absent, Substring takes 0-based half-open bounds).                       *)
(*                                                                          *)
(* Characters outside ASCII are written as placeholders of the same UTF-16  *)
(* length (String.length counts UTF-16 units): "#" per unit of an emoji,    *)
(* "~" for the em dash, "=" for the box-drawing bar.                        *)
(***************************************************************************)
EXTENDS Integers, Sequences, FiniteSets, TLC

VARIABLES
    scenario,      \* which script of channel messages the users post
    posted,        \* how many messages of the script are in the channel
    container,     \* text of the webhook message ("" while none exists)
    configured,    \* GAME_<name>_MESSAGE_ID is set to the container's id
    storedCursor,  \* cursor passed to the render whose text was last stored
    pc,            \* position of the running sync cycle
    currentState,  \* syncGame: decoded { lastProcessedMessageId, players }
    editing,       \* syncGame: local persistentMessageId is non-null
    messages,      \* syncGame: fetched batch (message ids, oldest first)
    successful,    \* parseResults.successful still to be merged
    failed,        \* parseResults.failed.length
    skipped,       \* parseResults.skipped
    players,       \* syncGame: working collection
    updatedCount,  \* syncGame: updatedCount
    lastMessageId, \* syncGame: lastMessageId
    lastMerge,     \* outcome of the latest upsert of this cycle (the log line)
    sortedPlayers, \* syncGame: sortedPlayers
    rendered,      \* result of step 6: content, truncated, shownCount, baseline
                   \* and the player counts the truncation loop tried
    result,        \* value syncGame returned (or the error it threw)
    other,         \* a second process running syncGame: its position, locals
                   \* and result while it is not the one taking steps
    run            \* syncAll: the place of the game being synced in this.games,
                   \* results.games, and channel and container of every game

vars == <<scenario, posted, container, configured, storedCursor, pc,
          currentState, editing, messages, successful, failed, skipped,
          players, updatedCount, lastMessageId, lastMerge, sortedPlayers,
          rendered, result, other, run>>

----------------------------------------------------------------------------
(* JavaScript values *)

\* NaN: a reserved integer far outside every score and day number of the model.
NaN == 0 - 1000000000

\* null / undefined for a string-valued field (the cursor): the empty string
\* is the only falsy string, and the code tests the cursor by truthiness.
Null == ""

SetMin(S) == CHOOSE x \in S : \A y \in S : x <= y
SetMax(S) == CHOOSE x \in S : \A y \in S : x >= y

\* the character at 1-based place i, "" outside the string
CharAt(s, i) == IF i >= 1 /\ i <= Len(s) THEN SubSeq(s, i, i) ELSE ""

Digits == {"0", "1", "2", "3", "4", "5", "6", "7", "8", "9"}

DigitVal(c) ==
    CASE c = "0" -> 0 [] c = "1" -> 1 [] c = "2" -> 2 [] c = "3" -> 3
      [] c = "4" -> 4 [] c = "5" -> 5 [] c = "6" -> 6 [] c = "7" -> 7
      [] c = "8" -> 8 [] c = "9" -> 9

DigitChar(d) == CharAt("0123456789", d + 1)

\* /\s/ restricted to the white space the model's texts contain
IsSpace(c) == c \in {" ", "\n", "\t"}

IsDigits(s) == Len(s) > 0 /\ \A i \in 1..Len(s) : CharAt(s, i) \in Digits

\* String.prototype.trim
Trim(s) ==
    LET n     == Len(s)
        lead  == Cardinality({i \in 1..n : \A j \in 1..i : IsSpace(CharAt(s, j))})
        trail == Cardinality({i \in 1..n : \A j \in i..n : IsSpace(CharAt(s, n + i - j))})
    IN  IF lead = n THEN "" ELSE SubSeq(s, lead + 1, n - trail)

\* String.prototype.startsWith
StartsWith(s, p) == Len(s) >= Len(p) /\ SubSeq(s, 1, Len(p)) = p

\* String.prototype.indexOf: 0-based index of the first occurrence, or -1
IndexOf(s, m) ==
    LET hits == {i \in 1..(Len(s) - Len(m) + 1) : SubSeq(s, i, i + Len(m) - 1) = m}
    IN  IF hits = {} THEN 0 - 1 ELSE SetMin(hits) - 1

\* String.prototype.substring(a, b): clamps to [0, length], swaps if a > b
Substring(s, a, b) ==
    LET ca == IF a < 0 THEN 0 ELSE IF a > Len(s) THEN Len(s) ELSE a
        cb == IF b < 0 THEN 0 ELSE IF b > Len(s) THEN Len(s) ELSE b
        lo == IF ca <= cb THEN ca ELSE cb
        hi == IF ca <= cb THEN cb ELSE ca
    IN  SubSeq(s, lo + 1, hi)

\* the k-th smallest element of a finite set of integers
Nth(S, k) == CHOOSE x \in S : Cardinality({y \in S : y < x}) = k - 1

\* String.prototype.split(sep) for a one-character separator
Split(s, sep) ==
    LET pos == {i \in 1..Len(s) : CharAt(s, i) = sep}
        n   == Cardinality(pos)
        from(j) == IF j = 1 THEN 1 ELSE Nth(pos, j - 1) + 1
        to(j)   == IF j = n + 1 THEN Len(s) ELSE Nth(pos, j) - 1
    IN  [j \in 1..(n + 1) |-> SubSeq(s, from(j), to(j))]

\* String.prototype.split(/\s+/) of a trimmed string
SplitWs(s) ==
    LET starts == {i \in 1..Len(s) :
                     /\ ~IsSpace(CharAt(s, i))
                     /\ (i = 1 \/ IsSpace(CharAt(s, i - 1)))}
        ends   == {i \in 1..Len(s) :
                     /\ ~IsSpace(CharAt(s, i))
                     /\ (i = Len(s) \/ IsSpace(CharAt(s, i + 1)))}
        n      == Cardinality(starts)
    IN  IF n = 0 THEN <<"">>
        ELSE [j \in 1..n |-> SubSeq(s, Nth(starts, j), Nth(ends, j))]

\* Array.prototype.join
RECURSIVE Join(_, _)
Join(parts, sep) ==
    IF Len(parts) = 0 THEN ""
    ELSE IF Len(parts) = 1 THEN parts[1]
    ELSE LET h == Len(parts) \div 2
         IN  Join(SubSeq(parts, 1, h), sep) \o sep
                \o Join(SubSeq(parts, h + 1, Len(parts)), sep)

\* s with every character of the set bad removed: replace(/[...]/g, '')
RECURSIVE RemoveChars(_, _)
RemoveChars(s, bad) ==
    IF Len(s) = 0 THEN ""
    ELSE IF Len(s) = 1 THEN (IF s \in bad THEN "" ELSE s)
    ELSE LET h == Len(s) \div 2
         IN  RemoveChars(SubSeq(s, 1, h), bad)
                \o RemoveChars(SubSeq(s, h + 1, Len(s)), bad)

UpperAlpha == "ABCDEFGHIJKLMNOPQRSTUVWXYZ"
LowerAlpha == "abcdefghijklmnopqrstuvwxyz"

\* map every character found in alphabet from to the one at its place in to
RECURSIVE MapCase(_, _, _)
MapCase(s, from, to) ==
    IF Len(s) = 0 THEN ""
    ELSE IF Len(s) = 1
         THEN (IF IndexOf(from, s) >= 0 THEN CharAt(to, IndexOf(from, s) + 1) ELSE s)
    ELSE LET h == Len(s) \div 2
         IN  MapCase(SubSeq(s, 1, h), from, to)
                \o MapCase(SubSeq(s, h + 1, Len(s)), from, to)

ToLowerCase(s) == MapCase(s, UpperAlpha, LowerAlpha)
ToUpperCase(s) == MapCase(s, LowerAlpha, UpperAlpha)

\* Number -> String for integers (template literals, Array.join)
RECURSIVE NatToString(_)
NatToString(n) ==
    IF n < 10 THEN DigitChar(n) ELSE NatToString(n \div 10) \o DigitChar(n % 10)

NumToString(n) ==
    IF n = NaN THEN "NaN"
    ELSE IF n < 0 THEN "-" \o NatToString(0 - n) ELSE NatToString(n)

\* Number.prototype.toLocaleString() in the default en-US locale: groups of three
RECURSIVE NatToLocale(_)
NatToLocale(n) ==
    IF n < 1000 THEN NatToString(n)
    ELSE LET r == n % 1000
             pad == IF r < 10 THEN "00" ELSE IF r < 100 THEN "0" ELSE ""
         IN  NatToLocale(n \div 1000) \o "," \o pad \o NatToString(r)

NumToLocaleString(n) ==
    IF n = NaN THEN "NaN"
    ELSE IF n < 0 THEN "-" \o NatToLocale(0 - n) ELSE NatToLocale(n)

\* value of a non-empty string of digits
RECURSIVE DigitsValue(_)
DigitsValue(s) ==
    IF Len(s) = 1 THEN DigitVal(s)
    ELSE 10 * DigitsValue(SubSeq(s, 1, Len(s) - 1)) + DigitVal(CharAt(s, Len(s)))

\* parseInt(s, 10): leading white space, an optional sign, then the longest
\* prefix of digits; NaN when there is no digit
ParseInt(s) ==
    LET ns   == {i \in 1..Len(s) : ~IsSpace(CharAt(s, i))}
        b    == IF ns = {} THEN Len(s) + 1 ELSE SetMin(ns)
        sign == IF b <= Len(s) /\ CharAt(s, b) \in {"+", "-"} THEN 1 ELSE 0
        d    == b + sign
        stop == {i \in d..Len(s) : CharAt(s, i) \notin Digits}
        e    == IF stop = {} THEN Len(s) ELSE SetMin(stop) - 1
    IN  IF e < d THEN NaN
        ELSE IF sign = 1 /\ CharAt(s, b) = "-"
             THEN 0 - DigitsValue(SubSeq(s, d, e))
             ELSE DigitsValue(SubSeq(s, d, e))

----------------------------------------------------------------------------
(* Dates.  A time value is counted in days since 1970-01-01: every date the  *)
(* program builds is a UTC midnight, and the code only compares, subtracts   *)
(* and formats them.                                                         *)

\* days since the epoch of the proleptic Gregorian date y-m-d; a day past the
\* end of the month runs into the next month, as MakeDay does
DaysFromCivil(y, m, d) ==
    LET yy  == IF m <= 2 THEN y - 1 ELSE y
        era == yy \div 400
        yoe == yy - era * 400
        mp  == IF m > 2 THEN m - 3 ELSE m + 9
        doy == (153 * mp + 2) \div 5 + d - 1
        doe == yoe * 365 + yoe \div 4 - yoe \div 100 + doy
    IN  era * 146097 + doe - 719468

\* <<year, month, day>> of a day number
CivilFromDays(z) ==
    LET zz  == z + 719468
        era == zz \div 146097
        doe == zz - era * 146097
        yoe == (doe - doe \div 1460 + doe \div 36524 - doe \div 146096) \div 365
        doy == doe - (365 * yoe + yoe \div 4 - yoe \div 100)
        mp  == (5 * doy + 2) \div 153
        d   == doy - (153 * mp + 2) \div 5 + 1
        m   == IF mp < 10 THEN mp + 3 ELSE mp - 9
        y   == yoe + era * 400 + (IF m <= 2 THEN 1 ELSE 0)
    IN  <<y, m, d>>

Pad2(n) == IF n < 10 THEN "0" \o NatToString(n) ELSE NatToString(n)

Pad4(n) ==
    IF n < 10 THEN "000" \o NatToString(n)
    ELSE IF n < 100 THEN "00" \o NatToString(n)
    ELSE IF n < 1000 THEN "0" \o NatToString(n) ELSE NatToString(n)

\* /^\d{4}-\d{2}-\d{2}$/
MatchesDatePattern(s) ==
    /\ Len(s) = 10
    /\ CharAt(s, 5) = "-" /\ CharAt(s, 8) = "-"
    /\ \A i \in {1, 2, 3, 4, 6, 7, 9, 10} : CharAt(s, i) \in Digits

\* new Date(s) on Node (V8), as a day number or NaN (Invalid Date).
\*  - YYYY-MM-DD: month 01..12 and day 01..31 are accepted and the day is not
\*    checked against the month (2026-02-30 is 2 March 2026); any other month
\*    or day is an Invalid Date.
\*  - a string of one to four digits (what a shifted field of a data line can
\*    put in lastUpdated) goes to the legacy parser: 1..12 is that month of
\*    2001, 13..31 is invalid, any other number is a year (0..49 -> 20xx,
\*    50..99 -> 19xx), read in the runner's time zone, UTC.
\*  - every other text of the model (letters, punctuation) is an Invalid Date.
DateParse(s) ==
    IF MatchesDatePattern(s)
    THEN LET y == DigitsValue(SubSeq(s, 1, 4))
             m == DigitsValue(SubSeq(s, 6, 7))
             d == DigitsValue(SubSeq(s, 9, 10))
         IN  IF m \in 1..12 /\ d \in 1..31 THEN DaysFromCivil(y, m, d) ELSE NaN
    ELSE IF IsDigits(s) /\ Len(s) <= 4
    THEN LET n == DigitsValue(s)
         IN  IF n \in 1..12 THEN DaysFromCivil(2001, n, 1)
             ELSE IF n \in 13..31 THEN NaN
             ELSE IF n <= 49 THEN DaysFromCivil(2000 + n, 1, 1)
             ELSE IF n <= 99 THEN DaysFromCivil(1900 + n, 1, 1)
             ELSE DaysFromCivil(n, 1, 1)
    ELSE NaN

\* date.toISOString().split('T')[0] of a valid date of the years 0..9999
DateToIso(z) ==
    LET c == CivilFromDays(z)
    IN  Pad4(c[1]) \o "-" \o Pad2(c[2]) \o "-" \o Pad2(c[3])

\* JavaScript relational and arithmetic operators on numbers that may be NaN
JsLt(a, b)  == a # NaN /\ b # NaN /\ a < b
JsNeq(a, b) == a = NaN \/ b = NaN \/ a # b
JsSub(a, b) == IF a = NaN \/ b = NaN THEN NaN ELSE a - b

----------------------------------------------------------------------------
(* parser.js *)

LB_UPDATE_PREFIX == "LB_UPDATE:"

\* extractUserId: the digits of the leftmost match of /<@!?(\d+)>/, or null
ExtractUserId(mention) ==
    LET n == Len(mention)
        from(i) == IF CharAt(mention, i + 2) = "!" THEN i + 3 ELSE i + 2
        stop(i) == {j \in from(i)..n : CharAt(mention, j) \notin Digits}
        hits == {i \in 1..(n - 1) :
                   /\ SubSeq(mention, i, i + 1) = "<@"
                   /\ stop(i) # {}
                   /\ SetMin(stop(i)) > from(i)
                   /\ CharAt(mention, SetMin(stop(i))) = ">"}
    IN  IF hits = {} THEN Null
        ELSE LET i == SetMin(hits)
             IN  SubSeq(mention, from(i), SetMin(stop(i)) - 1)

\* parseDate: the canonical YYYY-MM-DD of the token, or null
ParseDate(dateString) ==
    IF ~MatchesDatePattern(dateString) THEN Null
    ELSE LET date == DateParse(SubSeq(dateString, 1, 4) \o "-"
                        \o SubSeq(dateString, 6, 7) \o "-" \o SubSeq(dateString, 9, 10))
         IN  IF date = NaN THEN Null ELSE DateToIso(date)

\* the characters sanitizeInput removes: < > ' " ` ; ( )  (a backquote cannot
\* be written in a string of this module, and no text of the model holds one)
DangerousChars == {"<", ">", "'", "\"", ";", "(", ")"}

SanitizeMaxLength == 200

\* sanitizeInput
SanitizeInput(text) ==
    Substring(Trim(RemoveChars(text, DangerousChars)), 0, SanitizeMaxLength)

NoUpdate == [ok |-> FALSE]

\* parseLeaderboardUpdate: [ok |-> FALSE] stands for the null it returns
ParseLeaderboardUpdate(messageContent) ==
    IF messageContent = "" THEN NoUpdate
    ELSE IF ~StartsWith(Trim(messageContent), LB_UPDATE_PREFIX) THEN NoUpdate
    ELSE
      LET content == Trim(Substring(Trim(messageContent), Len(LB_UPDATE_PREFIX),
                                    Len(Trim(messageContent))))
          parts   == SplitWs(content)
      IN  IF Len(parts) < 6 THEN NoUpdate
          ELSE
            LET userId       == ExtractUserId(parts[1])
                currentScore == ParseInt(parts[3])
                peakScore    == ParseInt(parts[5])
                parsedDate   == ParseDate(parts[6])
                sanitizedCurrentRank == SanitizeInput(parts[2])
                sanitizedPeakRank    == SanitizeInput(parts[4])
            IN  IF userId = Null THEN NoUpdate
                ELSE IF currentScore = NaN \/ peakScore = NaN THEN NoUpdate
                ELSE IF currentScore < 0 \/ peakScore < 0 THEN NoUpdate
                ELSE IF parsedDate = Null THEN NoUpdate
                ELSE IF sanitizedCurrentRank = "" \/ sanitizedPeakRank = "" THEN NoUpdate
                ELSE [ok |-> TRUE,
                      userId |-> userId,
                      currentRank |-> sanitizedCurrentRank,
                      currentRankScore |-> currentScore,
                      peakRank |-> sanitizedPeakRank,
                      peakRankScore |-> peakScore,
                      lastUpdated |-> parsedDate]

\* isLeaderboardUpdate
IsLeaderboardUpdate(messageContent) ==
    messageContent # "" /\ StartsWith(Trim(messageContent), LB_UPDATE_PREFIX)

\* a batch parser that counts a command it cannot parse as skipped
RECURSIVE ParseMultipleUpdatesLax(_)
ParseMultipleUpdatesLax(batch) ==
    IF Len(batch) = 0 THEN [successful |-> <<>>, failed |-> <<>>, skipped |-> 0]
    ELSE
      LET rest    == ParseMultipleUpdatesLax(SubSeq(batch, 1, Len(batch) - 1))
          message == batch[Len(batch)]
          parsed  == ParseLeaderboardUpdate(message.content)
      IN  IF parsed.ok
          THEN [rest EXCEPT !.successful =
                    Append(@, [messageId |-> message.id, data |-> parsed])]
          ELSE [rest EXCEPT !.skipped = @ + 1]

\* parseMultipleUpdates over a batch of [id, content] messages
RECURSIVE ParseMultipleUpdates(_)
ParseMultipleUpdates(batch) ==
    IF Len(batch) = 0 THEN [successful |-> <<>>, failed |-> <<>>, skipped |-> 0]
    ELSE
      LET rest    == ParseMultipleUpdates(SubSeq(batch, 1, Len(batch) - 1))
          message == batch[Len(batch)]
          parsed  == ParseLeaderboardUpdate(message.content)
      IN  IF ~IsLeaderboardUpdate(message.content)
          THEN [rest EXCEPT !.skipped = @ + 1]
          ELSE IF parsed.ok
          THEN [rest EXCEPT !.successful =
                    Append(@, [messageId |-> message.id, data |-> parsed])]
          ELSE [rest EXCEPT !.failed = Append(@, message.id)]

----------------------------------------------------------------------------
(* storage.js.  A player is a record with the fields userId, username,      *)
(* currentRank, currentRankScore, peakRank, peakRankScore, lastUpdated.     *)

DATA_VERSION == "v1"
DATA_START_MARKER == "[DATA:" \o DATA_VERSION \o "]"
DATA_END_MARKER == "[/DATA]"

\* one line of encodePlayerData
EncodePlayerLine(player) ==
    Join(<<player.userId,
           IF player.username = "" THEN "Unknown" ELSE player.username,
           player.currentRank,
           NumToString(player.currentRankScore),
           player.peakRank,
           NumToString(player.peakRankScore),
           player.lastUpdated>>, "|")

\* encodePlayerData
EncodePlayerData(ps) ==
    Join([i \in 1..Len(ps) |-> EncodePlayerLine(ps[i])], "\n")

\* the object decodePlayerData builds from a line of at least seven fields
DecodePlayerLine(line) ==
    LET parts == Split(line, "|")
    IN  [userId |-> parts[1],
         username |-> parts[2],
         currentRank |-> parts[3],
         currentRankScore |-> ParseInt(parts[4]),
         peakRank |-> parts[5],
         peakRankScore |-> ParseInt(parts[6]),
         lastUpdated |-> parts[7]]

\* decodePlayerData
DecodePlayerData(dataString) ==
    IF dataString = "" \/ Trim(dataString) = "" THEN <<>>
    ELSE
      LET lines == Split(Trim(dataString), "\n")
          Kept(line) == Trim(line) # "" /\ Len(Split(line, "|")) >= 7
          kept == SelectSeq(lines, Kept)
      IN  [i \in 1..Len(kept) |-> DecodePlayerLine(kept[i])]

\* encodeState
EncodeState(lastProcessedMessageId, ps) ==
    Join(<<DATA_START_MARKER,
           "LAST:" \o (IF lastProcessedMessageId = Null THEN "none"
                       ELSE lastProcessedMessageId),
           EncodePlayerData(ps),
           DATA_END_MARKER>>, "\n")

EmptyState == [lastProcessedMessageId |-> Null, players |-> <<>>]

\* a decodeState that reads to the end of the text when the end marker is
\* missing
DecodeStateToEnd(messageContent) ==
    IF messageContent = "" THEN EmptyState
    ELSE
      LET startIdx == IndexOf(messageContent, DATA_START_MARKER)
          found    == IndexOf(messageContent, DATA_END_MARKER)
          endIdx   == IF found = 0 - 1 THEN Len(messageContent) ELSE found
      IN  IF startIdx = 0 - 1 THEN EmptyState
          ELSE
            LET dataSection == Trim(Substring(messageContent,
                                   startIdx + Len(DATA_START_MARKER), endIdx))
                lines    == Split(dataSection, "\n")
                lastLine == lines[1]
                matched  == StartsWith(lastLine, "LAST:") /\ Len(lastLine) > 5
                captured == SubSeq(lastLine, 6, Len(lastLine))
            IN  [lastProcessedMessageId |->
                     IF matched /\ captured # "none" THEN captured ELSE Null,
                 players |-> DecodePlayerData(Join(Tail(lines), "\n"))]

\* decodeState
DecodeState(messageContent) ==
    IF messageContent = "" THEN EmptyState
    ELSE
      LET startIdx == IndexOf(messageContent, DATA_START_MARKER)
          endIdx   == IndexOf(messageContent, DATA_END_MARKER)
      IN  IF startIdx = 0 - 1 \/ endIdx = 0 - 1 THEN EmptyState
          ELSE
            LET dataSection == Trim(Substring(messageContent,
                                   startIdx + Len(DATA_START_MARKER), endIdx))
                lines    == Split(dataSection, "\n")
                lastLine == lines[1]
                \* /^LAST:(.+)$/
                matched  == StartsWith(lastLine, "LAST:") /\ Len(lastLine) > 5
                captured == SubSeq(lastLine, 6, Len(lastLine))
            IN  [lastProcessedMessageId |->
                     IF matched /\ captured # "none" THEN captured ELSE Null,
                 players |-> DecodePlayerData(Join(Tail(lines), "\n"))]

\* players.findIndex(p => p.userId === id): 1-based, 0 when absent
FindIndex(ps, id) ==
    LET hits == {i \in 1..Len(ps) : ps[i].userId = id}
    IN  IF hits = {} THEN 0 ELSE SetMin(hits)

\* the date test with its operands exchanged: existingDate < newDate
IsStaleReversed(existing, newPlayerData) ==
    JsLt(DateParse(existing.lastUpdated), DateParse(newPlayerData.lastUpdated))

\* the date test made non-strict: newDate <= existingDate
IsStaleOrSameDay(existing, newPlayerData) ==
    LET n == DateParse(newPlayerData.lastUpdated)
        e == DateParse(existing.lastUpdated)
    IN  n # NaN /\ e # NaN /\ n <= e

\* the date test of upsertPlayer: newDate < existingDate
IsStale(existing, newPlayerData) ==
    JsLt(DateParse(newPlayerData.lastUpdated), DateParse(existing.lastUpdated))

\* an upsert without the date test: an existing player is always replaced
UpsertPlayerNoDateTest(ps, newPlayerData) ==
    LET hits == {i \in 1..Len(ps) : ps[i].userId = newPlayerData.userId}
    IN  IF hits # {}
        THEN [players |-> [ps EXCEPT ![SetMin(hits)] = newPlayerData],
              updated |-> TRUE]
        ELSE [players |-> Append(ps, newPlayerData), updated |-> TRUE]

\* an upsert that moves the player it writes to the front of the collection
UpsertPlayerToFront(ps, newPlayerData) ==
    LET others == SelectSeq(ps, LAMBDA p : p.userId # newPlayerData.userId)
        hits   == {i \in 1..Len(ps) : ps[i].userId = newPlayerData.userId}
    IN  IF hits # {} /\ IsStale(ps[SetMin(hits)], newPlayerData)
        THEN [players |-> ps, updated |-> FALSE]
        ELSE [players |-> <<newPlayerData>> \o others, updated |-> TRUE]

\* an upsert that keeps the old entity and appends the new one after it
UpsertPlayerAppending(ps, newPlayerData) ==
    [players |-> Append(ps, newPlayerData), updated |-> TRUE]

\* upsertPlayer
UpsertPlayer(ps, newPlayerData) ==
    LET existingIndex == FindIndex(ps, newPlayerData.userId)
    IN  IF existingIndex > 0
        THEN IF IsStale(ps[existingIndex], newPlayerData)
             THEN [players |-> ps, updated |-> FALSE]
             ELSE [players |-> [ps EXCEPT ![existingIndex] = newPlayerData],
                   updated |-> TRUE]
        ELSE [players |-> Append(ps, newPlayerData), updated |-> TRUE]

\* the comparator of sortPlayers: negative when a goes before b
ComparePlayers(a, b) ==
    IF JsNeq(b.currentRankScore, a.currentRankScore)
    THEN JsSub(b.currentRankScore, a.currentRankScore)
    ELSE IF JsNeq(b.peakRankScore, a.peakRankScore)
    THEN JsSub(b.peakRankScore, a.peakRankScore)
    ELSE JsSub(DateParse(b.lastUpdated), DateParse(a.lastUpdated))

\* an insertion that is not stable: x goes before the elements it ties with
RECURSIVE InsertUnstable(_, _)
InsertUnstable(sorted, x) ==
    IF Len(sorted) = 0 THEN <<x>>
    ELSE LET last == sorted[Len(sorted)]
             c    == ComparePlayers(last, x)
         IN  IF c # NaN /\ c >= 0
             THEN Append(InsertUnstable(SubSeq(sorted, 1, Len(sorted) - 1), x), last)
             ELSE Append(sorted, x)

\* x put into an ordered sequence behind every element that does not compare
\* greater than it: one step of a stable sort (a NaN comparison counts as 0)
RECURSIVE InsertStable(_, _)
InsertStable(sorted, x) ==
    IF Len(sorted) = 0 THEN <<x>>
    ELSE LET last == sorted[Len(sorted)]
             c    == ComparePlayers(last, x)
         IN  IF c # NaN /\ c > 0
             THEN Append(InsertStable(SubSeq(sorted, 1, Len(sorted) - 1), x), last)
             ELSE Append(sorted, x)

\* sortPlayers: Array.prototype.sort is stable, and sorts a copy
RECURSIVE SortPlayers(_)
SortPlayers(ps) ==
    IF Len(ps) = 0 THEN <<>>
    ELSE InsertStable(SortPlayers(SubSeq(ps, 1, Len(ps) - 1)), ps[Len(ps)])

\* the comparator is a consistent ordering of these players: no score or date
\* of theirs is NaN
ConsistentOrder(ps) ==
    \A i \in 1..Len(ps) :
        /\ ps[i].currentRankScore # NaN
        /\ ps[i].peakRankScore # NaN
        /\ DateParse(ps[i].lastUpdated) # NaN

\* every arrangement of a sequence
Arrangements(ps) ==
    {[i \in 1..Len(ps) |-> ps[f[i]]] :
        f \in {g \in [1..Len(ps) -> 1..Len(ps)] :
                  \A i, j \in 1..Len(ps) : i # j => g[i] # g[j]}}

\* what sortPlayers may return: with a comparator that is no consistent
\* ordering the order Array.prototype.sort leaves is implementation-defined
SortOutcomes(ps) ==
    IF ConsistentOrder(ps) THEN {SortPlayers(ps)} ELSE Arrangements(ps)

\* validatePlayerData
ValidatePlayerData(player) ==
    /\ player.userId # Null
    /\ player.currentRank # Null
    /\ player.peakRank # Null
    /\ player.lastUpdated # Null
    /\ ~(JsLt(player.currentRankScore, 0) \/ JsLt(player.peakRankScore, 0))
    /\ MatchesDatePattern(player.lastUpdated)

----------------------------------------------------------------------------
(* renderer.js *)

\* Discord's limit on a message's content (validateMessageLength)
MAX_LENGTH == 2000

\* truncateIfNeeded's default maxLength
TruncateMaxLength == 1900

\* renderLeaderboard's default options.maxPlayers
DefaultMaxPlayers == 50

\* getCurrentTimestamp: toLocaleString('en-US', ...) with two-digit fields and
\* a short zone name; cosmetic, one representative value
CurrentTimestamp == "02/14/2026, 06:00 PM UTC"

\* formatDate throws a RangeError (toISOString of an Invalid Date)
FormatDateThrows(dateString) == DateParse(dateString) = NaN

\* formatDate of a date it does not throw on
FormatDate(dateString) == DateToIso(DateParse(dateString))

\* getRankEmoji, as a placeholder of the emoji's UTF-16 length: the badges of
\* iron, silver, challenger and radiant are one unit long, every other badge
\* and the default are two
GetRankEmoji(rankName) ==
    IF ToLowerCase(rankName) \in {"iron", "silver", "challenger", "radiant"}
    THEN "#" ELSE "##"

\* renderPlayerEntry (showEmojis = true)
RenderPlayerEntry(position, player) ==
    LET positionDisplay == IF position <= 3 THEN "##"
                           ELSE NatToString(position) \o "."
    IN  Join(<<positionDisplay \o " <@" \o player.userId \o ">",
               "   Current: " \o GetRankEmoji(player.currentRank) \o " "
                   \o player.currentRank \o " ~ "
                   \o NumToLocaleString(player.currentRankScore),
               "   Peak: " \o GetRankEmoji(player.peakRank) \o " "
                   \o player.peakRank \o " ~ "
                   \o NumToLocaleString(player.peakRankScore),
               "   Last Update: " \o FormatDate(player.lastUpdated)>>, "\n")

Take(seq, n) == SubSeq(seq, 1, IF n < Len(seq) THEN n ELSE Len(seq))

\* renderLeaderboard throws: formatDate throws for one of the players it shows
RenderThrows(ps, maxPlayers) ==
    \E i \in 1..Len(Take(ps, maxPlayers)) : FormatDateThrows(ps[i].lastUpdated)

\* the entries of the players shown, each followed by an empty line except
\* the last
RECURSIVE RenderEntries(_, _)
RenderEntries(limitedPlayers, n) ==
    IF n = 0 THEN <<>>
    ELSE IF n = 1 THEN <<RenderPlayerEntry(1, limitedPlayers[1])>>
    ELSE RenderEntries(limitedPlayers, n - 1)
            \o <<"", RenderPlayerEntry(n, limitedPlayers[n])>>

\* renderLeaderboard (when it does not throw)
RenderLeaderboard(gameName, ps, lastProcessedMessageId, maxPlayers) ==
    LET header == <<"## " \o ToUpperCase(gameName) \o " LEADERBOARD", "">>
        body   == IF Len(ps) = 0
                  THEN <<"No leaderboard data available.", "",
                         "## Use ^LB_UPDATE: @user <rank> <score> <peak_rank> <peak_score> <date>^ to add entries.">>
                  ELSE LET limitedPlayers == Take(ps, maxPlayers)
                       IN  RenderEntries(limitedPlayers, Len(limitedPlayers))
        footer == <<"==================">>
                  \o (IF Len(ps) > 0
                      THEN <<"## Total Players: " \o NatToString(Len(ps))>>
                           \o (IF Len(ps) > maxPlayers
                               THEN <<"(Showing top " \o NatToString(maxPlayers) \o ")">>
                               ELSE <<>>)
                      ELSE <<>>)
                  \o <<"Updated: " \o CurrentTimestamp, "">>
    IN  Join(header \o body \o footer
                \o <<EncodeState(lastProcessedMessageId, ps)>>, "\n")

\* validateMessageLength
ValidateMessageLength(content) == ~(Len(content) > MAX_LENGTH)

\* a truncation loop that cuts only the visible list and encodes every player
RECURSIVE TruncateLoopHiding(_, _, _, _, _)
TruncateLoopHiding(gameName, ps, lastProcessedMessageId, maxLength, playerCount) ==
    IF playerCount > 0
    THEN LET content == RenderLeaderboard(gameName, ps, lastProcessedMessageId,
                                          playerCount)
         IN  IF Len(content) <= maxLength
             THEN [content |-> content, truncated |-> TRUE, shownCount |-> playerCount,
                   attempts |-> <<playerCount>>]
             ELSE LET later == TruncateLoopHiding(gameName, ps, lastProcessedMessageId,
                                                  maxLength, playerCount \div 2)
                  IN  [later EXCEPT !.attempts = <<playerCount>> \o @]
    ELSE [content |-> RenderLeaderboard(gameName, Take(ps, 3),
                                        lastProcessedMessageId, DefaultMaxPlayers),
          truncated |-> TRUE, shownCount |-> 3, attempts |-> <<>>]

\* a loop that takes one player off at a time instead of halving
RECURSIVE TruncateLoopByOne(_, _, _, _, _)
TruncateLoopByOne(gameName, ps, lastProcessedMessageId, maxLength, playerCount) ==
    IF playerCount > 0
    THEN LET content == RenderLeaderboard(gameName, Take(ps, playerCount),
                                          lastProcessedMessageId, playerCount)
         IN  IF Len(content) <= maxLength
             THEN [content |-> content, truncated |-> TRUE, shownCount |-> playerCount,
                   attempts |-> <<playerCount>>]
             ELSE LET later == TruncateLoopByOne(gameName, ps, lastProcessedMessageId,
                                                 maxLength, playerCount - 1)
                  IN  [later EXCEPT !.attempts = <<playerCount>> \o @]
    ELSE [content |-> RenderLeaderboard(gameName, Take(ps, 3),
                                        lastProcessedMessageId, DefaultMaxPlayers),
          truncated |-> TRUE, shownCount |-> 3, attempts |-> <<>>]

\* the loop of truncateIfNeeded, entered with playerCount, and its fallback
RECURSIVE TruncateLoop(_, _, _, _, _)
TruncateLoop(gameName, ps, lastProcessedMessageId, maxLength, playerCount) ==
    IF playerCount > 0
    THEN LET content == RenderLeaderboard(gameName, Take(ps, playerCount),
                                          lastProcessedMessageId, playerCount)
         IN  IF Len(content) <= maxLength
             THEN [content |-> content, truncated |-> TRUE, shownCount |-> playerCount,
                   attempts |-> <<playerCount>>]
             ELSE LET later == TruncateLoop(gameName, ps, lastProcessedMessageId,
                                            maxLength, playerCount \div 2)
                  IN  [later EXCEPT !.attempts = <<playerCount>> \o @]
    ELSE [content |-> RenderLeaderboard(gameName, Take(ps, 3),
                                        lastProcessedMessageId, DefaultMaxPlayers),
          truncated |-> TRUE, shownCount |-> 3, attempts |-> <<>>]

\* truncateIfNeeded; shownCount is undefined (here 0) when nothing was cut;
\* attempts records the player counts the loop rendered with, in order
TruncateIfNeeded(gameName, ps, lastProcessedMessageId, maxLength) ==
    LET content == RenderLeaderboard(gameName, ps, lastProcessedMessageId,
                                     DefaultMaxPlayers)
    IN  IF Len(content) <= maxLength
        THEN [content |-> content, truncated |-> FALSE, shownCount |-> 0,
              attempts |-> <<>>]
        ELSE TruncateLoop(gameName, ps, lastProcessedMessageId, maxLength,
                          Len(ps) \div 2)

----------------------------------------------------------------------------
(* The message source, the container store and the users.                   *)

\* MAX_MESSAGES_PER_SYNC as configured for the model (the default is 100)
MaxMessagesPerSync == 3

\* the Discord API's own ceiling on one fetch
DiscordFetchMax == 100

\* game.name
GameName == "valorant"

RECURSIVE Repeat(_, _)
Repeat(c, n) ==
    IF n = 0 THEN "" ELSE IF n = 1 THEN c
    ELSE Repeat(c, n \div 2) \o Repeat(c, n - n \div 2)

\* the text of an update command
UpdateText(id, currentRank, currentScore, peakRank, peakScore, date) ==
    "LB_UPDATE: <@" \o id \o "> " \o currentRank \o " " \o currentScore \o " "
        \o peakRank \o " " \o peakScore \o " " \o date

ChatText == "gg everyone"

\* lengths of the long tokens of the overflow scripts
LongRankLength == 120
HugeIdLength == 1900

LongRank == Repeat("x", LongRankLength)

\* The scripts: what the users of the channel post, in order.
\*  1 ordinary traffic: an insert, chatter, an older update of the same player,
\*    another player
\*  2 a rejected command (negative score) after a valid one, then a same-day
\*    update
\*  3 a rank holding the field delimiter
\*  4 ranks holding the start marker and runs of delimiters
\*  5 a rank holding the start marker, followed by chatter
\*  6 four players with long ranks: the baseline render exceeds the ceiling
\*  7 one player whose single entry exceeds the ceiling
\*  8 an update, a full page of chatter, another update
Scripts ==
    << <<UpdateText("1", "Gold", "2450", "Master", "2610", "2026-02-14"),
         ChatText,
         UpdateText("1", "Silver", "1200", "Gold", "1500", "2026-02-10"),
         UpdateText("2", "Diamond", "2450", "Master", "2700", "2026-02-13")>>,
       <<UpdateText("1", "Gold", "2450", "Master", "2610", "2026-02-14"),
         "LB_UPDATE: @user Diamond -5 Master 2610 2026-02-14",
         UpdateText("1", "Iron", "15", "Master", "2610", "2026-02-14")>>,
       <<UpdateText("3", "a|b", "10", "c", "20", "2026-02-14"),
         ChatText>>,
       <<UpdateText("1", "[DATA:v1]", "30", "Gold", "30", "2026-02-14"),
         UpdateText("2", "Gold", "20", "a|b|c|d|e|f|g", "20", "2026-02-14"),
         UpdateText("3", "Gold", "10", "a|b|c|d|e|f|g", "10", "2026-02-14")>>,
       <<UpdateText("1", "[DATA:v1]", "10", "Gold", "20", "2026-02-14"),
         ChatText, ChatText, ChatText>>,
       <<UpdateText("1", LongRank, "40", LongRank, "40", "2026-02-14"),
         UpdateText("2", LongRank, "30", LongRank, "30", "2026-02-14"),
         UpdateText("3", LongRank, "20", LongRank, "20", "2026-02-14"),
         UpdateText("4", LongRank, "10", LongRank, "10", "2026-02-14")>>,
       <<UpdateText(Repeat("7", HugeIdLength), "Gold", "10", "Gold", "20", "2026-02-14"),
         ChatText>>,
       <<UpdateText("1", "Gold", "2450", "Master", "2610", "2026-02-14"),
         ChatText, ChatText, ChatText,
         UpdateText("2", "Diamond", "2450", "Master", "2700", "2026-02-13")>> >>

\* a message's id (a snowflake: a numeral that grows with the time of posting)
MessageId(i) == NatToString(i)

\* the channel: the messages posted so far, oldest first
Channel == [i \in 1..posted |-> [id |-> MessageId(i), content |-> Scripts[scenario][i]]]

\* channel.messages.fetch({limit, after}) sorted oldest first: the messages
\* after the cursor nearest to it, or with no cursor the latest ones
FetchMessages(channel, afterMessageId, limit) ==
    LET n   == IF limit < DiscordFetchMax THEN limit ELSE DiscordFetchMax
        ids == IF afterMessageId = Null
               THEN {i \in 1..Len(channel) : i > Len(channel) - n}
               ELSE LET later == {i \in 1..Len(channel) : i > DigitsValue(afterMessageId)}
                    IN  {i \in later : Cardinality({j \in later : j < i}) < n}
    IN  [k \in 1..Cardinality(ids) |-> channel[Nth(ids, k)]]

\* the users client.users.fetch finds, and the name it returns for them
KnownUsers == {"1", "3"}
DiscordUsername == "Turbo"

\* resolveUsername: the user's name, or User_<first six of the id> when the
\* lookup fails
ResolveUsername(userId) ==
    IF userId \in KnownUsers THEN DiscordUsername
    ELSE "User_" \o Substring(userId, 0, 6)

NoPlayer == [userId |-> "", username |-> "", currentRank |-> "",
             currentRankScore |-> 0, peakRank |-> "", peakRankScore |-> 0,
             lastUpdated |-> ""]

NoMerge == [outcome |-> "none", update |-> NoPlayer, before |-> <<>>]

NoRender == [content |-> "", truncated |-> FALSE, shownCount |-> 0,
             baseline |-> 0, threw |-> FALSE, attempts |-> <<>>]

NoResult == [kind |-> "none", processed |-> 0, updated |-> 0, failed |-> 0,
             skipped |-> 0]

\* syncGame's locals before its first statement
IdleLocals ==
    /\ currentState = EmptyState
    /\ editing = FALSE
    /\ messages = <<>>
    /\ successful = <<>>
    /\ failed = 0
    /\ skipped = 0
    /\ players = <<>>
    /\ updatedCount = 0
    /\ lastMessageId = Null
    /\ lastMerge = NoMerge
    /\ sortedPlayers = <<>>
    /\ rendered = NoRender

\* a process that has not started a run
IdleProcess ==
    [pc |-> "idle", result |-> NoResult, currentState |-> EmptyState,
     editing |-> FALSE, messages |-> <<>>, successful |-> <<>>, failed |-> 0,
     skipped |-> 0, players |-> <<>>, updatedCount |-> 0, lastMessageId |-> Null,
     lastMerge |-> NoMerge, sortedPlayers |-> <<>>, rendered |-> NoRender]

\* syncAll over one game, the one whose channel and container the variables
\* hold
SingleRun ==
    [index |-> 1, games |-> <<>>, stores |-> <<>>, totalProcessed |-> 0,
     totalUpdated |-> 0, totalFailed |-> 0, totalSkipped |-> 0]

Init ==
    /\ scenario \in 1..Len(Scripts)
    /\ posted = 0
    /\ container = ""
    /\ configured = FALSE
    /\ storedCursor = Null
    /\ pc = "idle"
    /\ IdleLocals
    /\ result = NoResult
    /\ other = IdleProcess
    /\ run = SingleRun

locals == <<currentState, editing, messages, successful, failed, skipped,
            players, updatedCount, lastMessageId, lastMerge, sortedPlayers,
            rendered>>

\* a user posts the next message of the script
Post ==
    /\ posted < Len(Scripts[scenario])
    /\ posted' = posted + 1
    /\ UNCHANGED <<run, other, scenario, container, configured, storedCursor, pc, locals, result>>

\* the operator saves the id of the created message as GAME_<name>_MESSAGE_ID
\* (README, "Save Message ID"), between two runs
ConfigureMessageId ==
    /\ pc = "idle"
    /\ ~configured
    /\ container # ""
    /\ configured' = TRUE
    /\ UNCHANGED <<run, other, scenario, posted, container, storedCursor, pc, locals, result>>

\* syncGame step 1: fetch the webhook message and decode it
FetchState ==
    /\ pc = "idle"
    /\ currentState' = IF configured /\ container # ""
                       THEN DecodeState(container) ELSE EmptyState
    /\ editing' = (configured /\ container # "")
    /\ messages' = <<>>
    /\ successful' = <<>>
    /\ failed' = 0
    /\ skipped' = 0
    /\ players' = <<>>
    /\ updatedCount' = 0
    /\ lastMessageId' = Null
    /\ lastMerge' = NoMerge
    /\ sortedPlayers' = <<>>
    /\ rendered' = NoRender
    /\ result' = NoResult
    /\ pc' = "fetch"
    /\ UNCHANGED <<run, other, scenario, posted, container, configured, storedCursor>>

\* step 2 without the early return: an empty batch goes on to be parsed,
\* merged, rendered and stored
FetchNewNoEarlyReturn ==
    /\ pc = "fetch"
    /\ LET after == currentState.lastProcessedMessageId
       IN  IF after # Null /\ ~IsDigits(after)
           THEN /\ result' = [NoResult EXCEPT !.kind = "error"]
                /\ pc' = "idle"
                /\ UNCHANGED messages
           ELSE /\ messages' = FetchMessages(Channel, after, MaxMessagesPerSync)
                /\ result' = result
                /\ pc' = "parse"
    /\ UNCHANGED <<run, other, scenario, posted, container, configured, storedCursor,
                   currentState, editing, successful, failed, skipped, players,
                   updatedCount, lastMessageId, lastMerge, sortedPlayers, rendered>>

\* syncGame step 2: fetch the messages after the cursor; return when none.
\* A cursor that is no snowflake makes the API call throw.
FetchNew ==
    /\ pc = "fetch"
    /\ LET after == currentState.lastProcessedMessageId
       IN  IF after # Null /\ ~IsDigits(after)
           THEN /\ result' = [NoResult EXCEPT !.kind = "error"]
                /\ pc' = "idle"
                /\ UNCHANGED messages
           ELSE LET batch == FetchMessages(Channel, after, MaxMessagesPerSync)
                IN  /\ messages' = batch
                    /\ IF Len(batch) = 0
                       THEN /\ result' = [NoResult EXCEPT !.kind = "ok"]
                            /\ pc' = "idle"
                       ELSE /\ result' = result
                            /\ pc' = "parse"
    /\ UNCHANGED <<run, other, scenario, posted, container, configured, storedCursor,
                   currentState, editing, successful, failed, skipped, players,
                   updatedCount, lastMessageId, lastMerge, sortedPlayers, rendered>>

\* syncGame steps 3 and 4 up to the loop: parse the batch, copy the players
ParseBatch ==
    /\ pc = "parse"
    /\ LET parseResults == ParseMultipleUpdates(messages)
       IN  /\ successful' = parseResults.successful
           /\ failed' = Len(parseResults.failed)
           /\ skipped' = parseResults.skipped
    /\ players' = currentState.players
    /\ updatedCount' = 0
    /\ lastMessageId' = currentState.lastProcessedMessageId
    /\ pc' = "merge"
    /\ UNCHANGED <<run, other, scenario, posted, container, configured, storedCursor,
                   currentState, editing, messages, lastMerge, sortedPlayers,
                   rendered, result>>

\* the playerData object syncGame builds from a parsed update
PlayerData(data, username) ==
    [userId |-> data.userId,
     username |-> username,
     currentRank |-> data.currentRank,
     currentRankScore |-> data.currentRankScore,
     peakRank |-> data.peakRank,
     peakRankScore |-> data.peakRankScore,
     lastUpdated |-> data.lastUpdated]

\* one iteration of the loop of step 4
MergeStep ==
    /\ pc = "merge"
    /\ successful # <<>>
    /\ LET update     == Head(successful)
           username   == ResolveUsername(update.data.userId)
           playerData == PlayerData(update.data, username)
           upserted   == UpsertPlayer(players, playerData)
       IN  IF ~ValidatePlayerData(playerData)
           THEN /\ lastMerge' = [outcome |-> "invalid", update |-> playerData,
                                 before |-> players]
                /\ UNCHANGED <<players, updatedCount, lastMessageId>>
           ELSE /\ players' = upserted.players
                /\ updatedCount' = IF upserted.updated THEN updatedCount + 1
                                   ELSE updatedCount
                /\ lastMerge' = [outcome |-> IF upserted.updated THEN "updated"
                                             ELSE "stale",
                                 update |-> playerData, before |-> players]
                /\ lastMessageId' = update.messageId
    /\ successful' = Tail(successful)
    /\ UNCHANGED <<run, other, scenario, posted, container, configured, storedCursor, pc,
                   currentState, editing, messages, failed, skipped,
                   sortedPlayers, rendered, result>>

\* syncGame step 5: sort
SortStep ==
    /\ pc = "merge"
    /\ successful = <<>>
    /\ sortedPlayers' \in SortOutcomes(players)
    /\ pc' = "render"
    /\ UNCHANGED <<run, other, scenario, posted, container, configured, storedCursor,
                   currentState, editing, messages, successful, failed, skipped,
                   players, updatedCount, lastMessageId, lastMerge, rendered,
                   result>>

\* syncGame step 6: render, and truncate when the content is too long; a
\* RangeError of formatDate ends the run
RenderStep ==
    /\ pc = "render"
    /\ IF RenderThrows(sortedPlayers, DefaultMaxPlayers)
       THEN /\ rendered' = [NoRender EXCEPT !.threw = TRUE]
            /\ result' = [NoResult EXCEPT !.kind = "error"]
            /\ pc' = "idle"
       ELSE LET content == RenderLeaderboard(GameName, sortedPlayers, lastMessageId,
                                             DefaultMaxPlayers)
                cut     == TruncateIfNeeded(GameName, sortedPlayers, lastMessageId,
                                            TruncateMaxLength)
            IN  /\ rendered' =
                     IF ValidateMessageLength(content)
                     THEN [content |-> content, truncated |-> FALSE,
                           shownCount |-> 0, baseline |-> Len(content),
                           threw |-> FALSE, attempts |-> <<>>]
                     ELSE [content |-> cut.content, truncated |-> cut.truncated,
                           shownCount |-> cut.shownCount, baseline |-> Len(content),
                           threw |-> FALSE, attempts |-> cut.attempts]
                /\ result' = result
                /\ pc' = "store"
    /\ UNCHANGED <<run, other, scenario, posted, container, configured, storedCursor,
                   currentState, editing, messages, successful, failed, skipped,
                   players, updatedCount, lastMessageId, lastMerge, sortedPlayers>>

\* a store that leaves the container alone when it is no longer the one this
\* run decoded
StoreStepIfUnchanged ==
    /\ pc = "store"
    /\ IF Len(rendered.content) > MAX_LENGTH
       THEN /\ result' = [NoResult EXCEPT !.kind = "error"]
            /\ UNCHANGED <<container, storedCursor>>
       ELSE /\ IF editing /\ DecodeState(container) # currentState
               THEN UNCHANGED <<container, storedCursor>>
               ELSE /\ container' = rendered.content
                    /\ storedCursor' = lastMessageId
            /\ result' = [kind |-> "ok", processed |-> Len(messages),
                          updated |-> updatedCount, failed |-> failed,
                          skipped |-> skipped]
    /\ pc' = "idle"
    /\ UNCHANGED <<run, other, scenario, posted, configured, locals>>

\* syncGame's last step: edit the webhook message, or send a new one; Discord
\* refuses a content longer than its limit and the error ends the run
StoreStep ==
    /\ pc = "store"
    /\ IF Len(rendered.content) > MAX_LENGTH
       THEN /\ result' = [NoResult EXCEPT !.kind = "error"]
            /\ UNCHANGED <<container, storedCursor>>
       ELSE /\ container' = rendered.content
            /\ storedCursor' = lastMessageId
            /\ result' = [kind |-> "ok", processed |-> Len(messages),
                          updated |-> updatedCount, failed |-> failed,
                          skipped |-> skipped]
    /\ pc' = "idle"
    /\ UNCHANGED <<run, other, scenario, posted, configured, locals>>

Next ==
    \/ Post
    \/ ConfigureMessageId
    \/ FetchState
    \/ FetchNew
    \/ ParseBatch
    \/ MergeStep
    \/ SortStep
    \/ RenderStep
    \/ StoreStep

Spec == Init /\ [][Next]_vars

\* The process taking steps yields to the second process, which resumes where
\* it was. The steps between two accesses to the container or the channel are
\* local to a process, so it yields only in front of an access: before the
\* fetch of the container, before the fetch of the channel, before the store.
SwitchWriter ==
    /\ pc \in {"idle", "fetch", "store"}
    /\ other' = [pc |-> pc, result |-> result, currentState |-> currentState,
                 editing |-> editing, messages |-> messages,
                 successful |-> successful, failed |-> failed,
                 skipped |-> skipped, players |-> players,
                 updatedCount |-> updatedCount, lastMessageId |-> lastMessageId,
                 lastMerge |-> lastMerge, sortedPlayers |-> sortedPlayers,
                 rendered |-> rendered]
    /\ pc' = other.pc
    /\ result' = other.result
    /\ currentState' = other.currentState
    /\ editing' = other.editing
    /\ messages' = other.messages
    /\ successful' = other.successful
    /\ failed' = other.failed
    /\ skipped' = other.skipped
    /\ players' = other.players
    /\ updatedCount' = other.updatedCount
    /\ lastMessageId' = other.lastMessageId
    /\ lastMerge' = other.lastMerge
    /\ sortedPlayers' = other.sortedPlayers
    /\ rendered' = other.rendered
    /\ UNCHANGED <<run, scenario, posted, container, configured, storedCursor>>

\* two processes run syncGame on the container of script 1
WriterInit == Init /\ scenario = 1

TwoWriterNext == Next \/ SwitchWriter

TwoWriterSpec == WriterInit /\ [][TwoWriterNext]_vars

\* the positions of a run
PcValues == {"idle", "fetch", "parse", "merge", "render", "store"}

\* the process moves to another position
Advance == pc' \in PcValues /\ pc' # pc

\* Script 8 with runs scheduled again and again, each carried to its end: the
\* position of the process changes for ever. (At every position a step of
\* syncGame is enabled, the loop of step 4 ends, and only the steps of
\* syncGame change the position, so this is the weak fairness of the run.)
PagedInit == Init /\ scenario = 8

PagedSpec == PagedInit /\ [][Next]_vars /\ WF_pc(Advance)


-----------------------------------------------------------------------------
(* The merge loop on its own: syncGame from the end of step 3, over every   *)
(* small batch of accepted updates and every small stored collection.       *)

\* the longest batch
MaxBatch == 3

\* update commands for the merge loop: player 1 on three days, twice on the
\* last of them, and player 2 with the scores and the day of one of them
MergePool ==
    {UpdateText("1", "Silver", "1200", "Gold", "1500", "2025-12-31"),
     UpdateText("1", "Gold", "2450", "Master", "2610", "2026-02-13"),
     UpdateText("1", "Diamond", "2600", "Master", "2700", "2026-02-14"),
     UpdateText("1", "Iron", "15", "Master", "2700", "2026-02-14"),
     UpdateText("2", "Diamond", "2450", "Master", "2610", "2026-02-13")}

\* the entity an earlier cycle stored for a command
StoredEntity(text) ==
    LET data == ParseLeaderboardUpdate(text)
    IN  PlayerData(data, ResolveUsername(data.userId))

\* the entities a decoded container can hold: stored ones, and the misread of
\* a line whose rank held a delimiter
MergeExisting ==
    {StoredEntity(t) : t \in MergePool}
        \cup {DecodePlayerLine("1|Turbo|a|b|10|c|20|2026-02-14")}

\* the decoded collections: at most two entities, of different players
MergeCollections ==
    {<<>>} \cup {<<e>> : e \in MergeExisting}
        \cup {<<e, f>> : <<e, f>> \in {pair \in MergeExisting \X MergeExisting :
                                         pair[1].userId # pair[2].userId}}

\* the batches: one to MaxBatch commands, with the ids of consecutive messages
MergeBatches ==
    UNION {{[k \in 1..n |-> [id |-> MessageId(k), content |-> texts[k]]] :
              texts \in [1..n -> MergePool]} : n \in 1..MaxBatch}

\* syncGame at the entry of the loop of step 4
MergeInit ==
    /\ scenario = 1
    /\ posted = 0
    /\ container = ""
    /\ configured = FALSE
    /\ storedCursor = Null
    /\ pc = "merge"
    /\ currentState \in {[lastProcessedMessageId |-> Null, players |-> c] :
                           c \in MergeCollections}
    /\ editing = FALSE
    /\ messages \in MergeBatches
    /\ successful = ParseMultipleUpdates(messages).successful
    /\ failed = 0
    /\ skipped = 0
    /\ players = currentState.players
    /\ updatedCount = 0
    /\ lastMessageId = Null
    /\ lastMerge = NoMerge
    /\ sortedPlayers = <<>>
    /\ rendered = NoRender
    /\ result = NoResult
    /\ other = IdleProcess
    /\ run = SingleRun

MergeNext == MergeStep \/ SortStep

MergeSpec == MergeInit /\ [][MergeNext]_vars

-----------------------------------------------------------------------------
(* Calendar dates, read from the text alone (for stating the properties).   *)

IsoYear(d)  == DigitsValue(SubSeq(d, 1, 4))
IsoMonth(d) == DigitsValue(SubSeq(d, 6, 7))
IsoDay(d)   == DigitsValue(SubSeq(d, 9, 10))

IsLeapYear(y) == (y % 4 = 0 /\ y % 100 # 0) \/ y % 400 = 0

MonthLength(y, m) ==
    IF m = 2 THEN (IF IsLeapYear(y) THEN 29 ELSE 28)
    ELSE IF m \in {4, 6, 9, 11} THEN 30 ELSE 31

\* d is YYYY-MM-DD and names a day of the calendar
IsCalendarDate(d) ==
    /\ MatchesDatePattern(d)
    /\ IsoMonth(d) \in 1..12
    /\ IsoDay(d) \in 1..MonthLength(IsoYear(d), IsoMonth(d))

\* calendar date a is strictly before calendar date b
IsoOlder(a, b) ==
    \/ IsoYear(a) < IsoYear(b)
    \/ IsoYear(a) = IsoYear(b) /\ IsoMonth(a) < IsoMonth(b)
    \/ IsoYear(a) = IsoYear(b) /\ IsoMonth(a) = IsoMonth(b) /\ IsoDay(a) < IsoDay(b)

\* the places of the entities of ps with the given id
PlacesOf(ps, id) == {i \in 1..Len(ps) : ps[i].userId = id}

-----------------------------------------------------------------------------
(* Properties of the merge loop (MergeSpec).                                *)

\* C3 - stale rejection: when the collection holds an entity with the update's
\* id and the update's date is strictly before the entity's, the merge leaves
\* the collection (so every field of that entity) as it was and the outcome is
\* stale, not updated.
StaleUpdateRejected ==
    lastMerge.outcome # "none" =>
        \A i \in PlacesOf(lastMerge.before, lastMerge.update.userId) :
            (/\ IsCalendarDate(lastMerge.before[i].lastUpdated)
             /\ IsCalendarDate(lastMerge.update.lastUpdated)
             /\ IsoOlder(lastMerge.update.lastUpdated, lastMerge.before[i].lastUpdated))
            => /\ players = lastMerge.before
               /\ lastMerge.outcome = "stale"

\* an update of 2025-12-31 has met the stored entity of a later day
StaleUpdateSeen ==
    /\ lastMerge.outcome = "stale"
    /\ \E i \in PlacesOf(lastMerge.before, lastMerge.update.userId) :
          /\ IsCalendarDate(lastMerge.before[i].lastUpdated)
          /\ IsoOlder(lastMerge.update.lastUpdated, lastMerge.before[i].lastUpdated)
          /\ lastMerge.update.currentRank # lastMerge.before[i].currentRank

\* C4 - merge of a valid update: with no entity of its id the update is
\* appended as a new entity; with an entity of its id and a date equal to or
\* after the entity's, the entity is replaced by the update's fields and
\* nothing else changes; in both cases the outcome is updated.
ValidUpdateApplied ==
    (lastMerge.outcome # "none" /\ IsCalendarDate(lastMerge.update.lastUpdated)) =>
        LET u      == lastMerge.update
            before == lastMerge.before
            places == PlacesOf(before, u.userId)
        IN  /\ places = {} =>
                 /\ players = Append(before, u)
                 /\ lastMerge.outcome = "updated"
            /\ \A i \in places :
                 (/\ IsCalendarDate(before[i].lastUpdated)
                  /\ ~IsoOlder(u.lastUpdated, before[i].lastUpdated))
                 => /\ Len(players) = Len(before)
                    /\ players[i] = u
                    /\ \A j \in 1..Len(before) : j # i => players[j] = before[j]
                    /\ lastMerge.outcome = "updated"

\* an update has replaced an entity of the same day that differs from it
SameDayUpdateApplied ==
    /\ lastMerge.outcome = "updated"
    /\ \E i \in PlacesOf(lastMerge.before, lastMerge.update.userId) :
          /\ lastMerge.before[i].lastUpdated = lastMerge.update.lastUpdated
          /\ lastMerge.before[i] # lastMerge.update
          /\ players[i] = lastMerge.update

\* the updates the batch's commands parse to, in the order of the batch
BatchUpdates == [k \in 1..Len(messages) |-> ParseLeaderboardUpdate(messages[k].content)]

\* C5 - backfill safety: a merge never moves an entity's date backwards, and
\* when the updates of a batch to one id carry pairwise distinct dates (also
\* distinct from the date of the entity stored for the id, if any), the entity
\* left after the loop is the newest of them, in whatever order the batch
\* holds them.
BackfillSafe ==
    /\ lastMerge.outcome # "none" =>
         \A i \in 1..Len(lastMerge.before) :
             IsCalendarDate(lastMerge.before[i].lastUpdated) =>
                 \E j \in 1..Len(players) :
                     /\ players[j].userId = lastMerge.before[i].userId
                     /\ IsCalendarDate(players[j].lastUpdated)
                     /\ ~IsoOlder(players[j].lastUpdated, lastMerge.before[i].lastUpdated)
    /\ (pc = "merge" /\ successful = <<>>) =>
         LET updates == BatchUpdates
         IN  \A id \in {"1", "2"} :
             LET ks     == PlacesOf(updates, id)
                 stored == PlacesOf(currentState.players, id)
             IN  (/\ ks # {}
                  /\ \A k, l \in ks :
                        k # l => updates[k].lastUpdated # updates[l].lastUpdated
                  /\ \A i \in stored :
                        /\ IsCalendarDate(currentState.players[i].lastUpdated)
                        /\ \A k \in ks : updates[k].lastUpdated
                                            # currentState.players[i].lastUpdated)
                 => LET newest == CHOOSE k \in ks :
                                     \A l \in ks \ {k} :
                                         IsoOlder(updates[l].lastUpdated,
                                                  updates[k].lastUpdated)
                        left   == PlacesOf(players, id)
                    IN  /\ Cardinality(left) = 1
                        /\ \A j \in left :
                              IF \E i \in stored :
                                    IsoOlder(updates[newest].lastUpdated,
                                             currentState.players[i].lastUpdated)
                              THEN \E i \in stored : players[j] = currentState.players[i]
                              ELSE players[j] = PlayerData(updates[newest],
                                                           ResolveUsername(id))

\* the loop has finished a batch that held three updates of a player not yet
\* stored, the newest first and the oldest last
BackfillSeen ==
    /\ pc = "merge" /\ successful = <<>>
    /\ Len(messages) = 3
    /\ LET updates == BatchUpdates
       IN  /\ PlacesOf(updates, "1") = {1, 2, 3}
           /\ IsoOlder(updates[2].lastUpdated, updates[1].lastUpdated)
           /\ IsoOlder(updates[3].lastUpdated, updates[2].lastUpdated)
           /\ \E j \in PlacesOf(players, "1") :
                 players[j].lastUpdated = updates[1].lastUpdated
    /\ PlacesOf(currentState.players, "1") = {}


-----------------------------------------------------------------------------
(* Properties of the sync cycle (Spec).                                     *)

\* cursor new is cursor old or the id of a later message
CursorNotBefore(new, old) ==
    \/ old = Null
    \/ /\ new # Null
       /\ IsDigits(new) /\ IsDigits(old)
       /\ DigitsValue(new) >= DigitsValue(old)

\* C1 - the persisted cursor never regresses: every write that edits the
\* container leaves a cursor that is the one the container carried or the id
\* of a later message, and never "none" after an id.
CursorNeverRegresses ==
    [][(pc = "store" /\ editing /\ container' # container)
          => CursorNotBefore(storedCursor', storedCursor)]_vars

\* C2 - after a cycle has processed a non-empty batch, the cursor it wrote is
\* the id of the last message of the batch, whatever became of each message.
CursorAtBatchEnd ==
    (pc = "idle" /\ result.kind = "ok" /\ result.processed > 0)
        => storedCursor = messages[Len(messages)].id

\* no two entities of ps share an id
UniqueIds(ps) == \A i, j \in 1..Len(ps) : i # j => ps[i].userId # ps[j].userId

\* C6 - the collection holds at most one entity per id: after decode, after
\* each merge, and in what is sorted and written back.
OneEntityPerId ==
    /\ UniqueIds(currentState.players)
    /\ UniqueIds(players)
    /\ UniqueIds(sortedPlayers)

\* scores that are numbers not below zero, and a date of the YYYY-MM-DD shape
IsValidEntity(e) ==
    /\ e.currentRankScore # NaN /\ e.currentRankScore >= 0
    /\ e.peakRankScore # NaN /\ e.peakRankScore >= 0
    /\ MatchesDatePattern(e.lastUpdated)

\* C7 - no invalid entity is a member of the collection, whether it came from
\* decoding the container or from a merged update.
NoInvalidEntity ==
    \A ps \in {currentState.players, players, sortedPlayers} :
        \A i \in 1..Len(ps) : IsValidEntity(ps[i])

\* the data-model invariants of a collection: one entity per id, numeric ids,
\* valid scores and dates, non-empty names and ranks that the sanitizer
\* leaves as they are
DataModelHolds(ps) ==
    /\ UniqueIds(ps)
    /\ \A i \in 1..Len(ps) :
          /\ IsValidEntity(ps[i])
          /\ IsDigits(ps[i].userId)
          /\ ps[i].username # ""
          /\ ps[i].currentRank # "" /\ SanitizeInput(ps[i].currentRank) = ps[i].currentRank
          /\ ps[i].peakRank # "" /\ SanitizeInput(ps[i].peakRank) = ps[i].peakRank

\* the entities of a sequence, as a set
Entities(ps) == {ps[i] : i \in 1..Len(ps)}

\* C8 - round trip: decoding the encoding of a cursor and of a collection
\* that satisfies the data-model invariants gives that cursor and the same
\* set of entities, field for field.
EncodeDecodeRoundTrip ==
    (pc = "store" /\ DataModelHolds(sortedPlayers)) =>
        LET decoded == DecodeState(EncodeState(lastMessageId, sortedPlayers))
        IN  /\ decoded.lastProcessedMessageId = lastMessageId
            /\ Entities(decoded.players) = Entities(sortedPlayers)

\* the number of entity lines in the data section at the end of a content
EntityLineCount(content) ==
    LET lines  == Split(content, "\n")
        starts == {i \in 1..Len(lines) : lines[i] = DATA_START_MARKER}
        ends   == {i \in 1..Len(lines) : lines[i] = DATA_END_MARKER}
    IN  IF starts = {} \/ ends = {} THEN 0
        ELSE Cardinality({i \in (SetMax(starts) + 2)..(SetMax(ends) - 1) :
                            lines[i] # ""})

\* C9 - overflow degradation: when the render of the whole collection is
\* longer than 2000 units, what the cycle goes on to write is at most 2000
\* units long and holds strictly fewer entities than the collection.
OverflowDegrades ==
    (pc = "store" /\ rendered.baseline > MAX_LENGTH) =>
        /\ Len(rendered.content) <= MAX_LENGTH
        /\ EntityLineCount(rendered.content) < Len(sortedPlayers)

\* C10 - whenever degradation occurs, the reported count of shown entities is
\* the number of entity lines in the data section of the returned text.
ShownCountMatches ==
    (pc = "store" /\ rendered.truncated) =>
        rendered.shownCount = EntityLineCount(rendered.content)


\* the lines of a content and the place of the start marker of the data
\* section at its end (0 when there is none)
ContentLines(content) == Split(content, "\n")

LastStartLine(lines) ==
    LET starts == {i \in 1..Len(lines) : lines[i] = DATA_START_MARKER}
    IN  IF starts = {} THEN 0 ELSE SetMax(starts)

\* the ids of the entry blocks of the visible part, in order: the text between
\* "<@" and the closing ">" of the lines that end an entry's first line
VisibleIds(content) ==
    LET lines == ContentLines(content)
        heads == {i \in 1..(LastStartLine(lines) - 1) :
                    /\ IndexOf(lines[i], "<@") >= 0
                    /\ CharAt(lines[i], Len(lines[i])) = ">"}
    IN  [k \in 1..Cardinality(heads) |->
            LET line == lines[Nth(heads, k)]
            IN  SubSeq(line, IndexOf(line, "<@") + 3, Len(line) - 1)]

\* the ids of the entity lines of the data section at the end, in order
DataIds(content) ==
    LET lines == ContentLines(content)
        start == LastStartLine(lines)
        rows  == {i \in (start + 2)..(Len(lines) - 1) : start > 0 /\ lines[i] # ""}
    IN  [k \in 1..Cardinality(rows) |-> Split(lines[Nth(rows, k)], "|")[1]]

\* the ids of a sequence of entities
IdsOf(ps) == [i \in 1..Len(ps) |-> ps[i].userId]

\* C11 - degradation cuts the visible list and the data section to the same
\* slice: with k the number of entities kept, both hold exactly the first k
\* entities of the ranked order, and no entity ranked below k is in the
\* persisted text, so decoding it does not return one.
DegradedSliceAgrees ==
    (pc = "store" /\ rendered.truncated) =>
        LET k == Len(DataIds(rendered.content))
        IN  /\ k <= Len(sortedPlayers)
            /\ k <= rendered.shownCount
            /\ DataIds(rendered.content) = IdsOf(Take(sortedPlayers, k))
            /\ VisibleIds(rendered.content) = IdsOf(Take(sortedPlayers, k))
            /\ \A i \in (k + 1)..Len(sortedPlayers) :
                  \A j \in 1..Len(DecodeState(rendered.content).players) :
                      DecodeState(rendered.content).players[j].userId
                          # sortedPlayers[i].userId

\* a render has been cut to fewer entities than the collection holds
DegradedSeen ==
    /\ pc = "store" /\ rendered.truncated
    /\ Len(DataIds(rendered.content)) >= 1
    /\ Len(DataIds(rendered.content)) < Len(sortedPlayers)
    /\ Len(rendered.content) <= MAX_LENGTH


\* the number of places at which m occurs in s
Occurrences(s, m) ==
    Cardinality({i \in 1..(Len(s) - Len(m) + 1) : SubSeq(s, i, i + Len(m) - 1) = m})

\* C12 - every text the renderer produces holds exactly one data section,
\* [DATA:v1] ... [/DATA], after the visible part, and the LAST line of that
\* section carries the cursor given to the render.
OneDataSectionAppended ==
    pc = "store" =>
        LET lines == ContentLines(rendered.content)
            start == LastStartLine(lines)
        IN  /\ Occurrences(rendered.content, DATA_START_MARKER) = 1
            /\ Occurrences(rendered.content, DATA_END_MARKER) = 1
            /\ start > 0
            /\ lines[Len(lines)] = DATA_END_MARKER
            /\ lines[start + 1] = "LAST:" \o (IF lastMessageId = Null THEN "none"
                                              ELSE lastMessageId)


\* the longest script
MaxScriptLength == SetMax({Len(Scripts[k]) : k \in 1..Len(Scripts)})

\* the container's cursor is the id of message i or of a later one
CursorReached(i) ==
    IF storedCursor # Null /\ IsDigits(storedCursor)
    THEN DigitsValue(storedCursor) >= i ELSE FALSE

\* message i is an update command in the channel, after the cursor of the
\* configured container
UpdatePending(i) ==
    IF configured /\ i <= posted /\ storedCursor # Null /\ IsDigits(storedCursor)
    THEN /\ DigitsValue(storedCursor) < i
         /\ ParseLeaderboardUpdate(Scripts[scenario][i]).ok
    ELSE FALSE

\* C13 - restartability: with runs scheduled for ever on one container, every
\* update message that is in the channel after the container's cursor is in
\* the end folded into the container (the cursor reaches it): no page is
\* fetched for ever.
EveryUpdateFolded ==
    \A i \in 1..MaxScriptLength : UpdatePending(i) ~> CursorReached(i)


\* C14 - two processes on one container: a store replaces the container
\* wholly, whatever the other process stored since this one decoded it. After
\* the store the container is this process's render with this process's
\* cursor, and an entity that only the other process holds is not in it.
LaterStoreClobbers ==
    [][(pc = "store" /\ pc' = "idle" /\ other' = other /\ result'.kind = "ok")
          => /\ container' = rendered.content
             /\ storedCursor' = lastMessageId
             /\ \A i \in 1..Len(other.sortedPlayers) :
                   (\A j \in 1..Len(sortedPlayers) :
                        sortedPlayers[j].userId # other.sortedPlayers[i].userId)
                   => \A j \in 1..Len(DecodeState(container').players) :
                          DecodeState(container').players[j].userId
                              # other.sortedPlayers[i].userId]_vars

\* both processes have stored, this one last: the other's store held a later
\* cursor and an entity that the container no longer holds
ClobberSeen ==
    /\ pc = "idle" /\ result.kind = "ok" /\ result.processed > 0
    /\ other.pc = "idle" /\ other.result.kind = "ok" /\ other.result.processed > 0
    /\ editing /\ other.editing
    /\ container = rendered.content
    /\ CursorReached(1)
    /\ other.lastMessageId # Null
    /\ DigitsValue(other.lastMessageId) > DigitsValue(storedCursor)
    /\ \E i \in 1..Len(other.sortedPlayers) :
          \A j \in 1..Len(DecodeState(container).players) :
              DecodeState(container).players[j].userId
                  # other.sortedPlayers[i].userId

\* C15: no stored container text is fatal to a cycle: a run that decoded an
\* existing container, whatever its data section holds, gets through decode,
\* merge, rank and render without raising an error
NoContainerIsFatal ==
    editing => ~rendered.threw

-----------------------------------------------------------------------------
(* Merging the same update twice (MergeSpec).                               *)

\* the entity the next iteration of the loop will upsert
NextPlayerData ==
    LET data == Head(successful).data
    IN  PlayerData(data, ResolveUsername(data.userId))

\* the next iteration applies again the update that was just applied
SameUpdateAgain ==
    /\ pc = "merge"
    /\ successful # <<>>
    /\ lastMerge.outcome = "updated"
    /\ NextPlayerData = lastMerge.update

\* C16 (as the code has it) - applying the same update twice in direct
\* succession leaves the entity collection as the first application left it,
\* and the outcome is updated both times: a date equal to the stored one is
\* not stale.
RepeatedUpdateIsApplied ==
    [][SameUpdateAgain => (players' = players /\ lastMerge'.outcome = "updated")]_vars

\* C16 (as stated) - applying the same update twice in direct succession
\* leaves the entity collection as the first application left it, and the
\* outcome is updated for the first application and stale for the second.
RepeatedUpdateIsStale ==
    [][SameUpdateAgain => (players' = players /\ lastMerge'.outcome = "stale")]_vars

\* a batch of one command sent twice has been merged
RepeatedUpdateSeen ==
    /\ pc = "merge"
    /\ Len(messages) = 2
    /\ messages[1].content = messages[2].content
    /\ successful = <<>>
    /\ updatedCount = 2
    /\ lastMerge.outcome = "updated"
    /\ players = lastMerge.before
    /\ PlacesOf(players, lastMerge.update.userId) # {}

-----------------------------------------------------------------------------
(* Ranking (MergeSpec: the state after SortStep).                           *)

\* the key (currentScore, peakScore, lastUpdated) of a is greater than or
\* equal to that of b, lexicographically; a key with a NaN compares with none
KeyNotBelow(a, b) ==
    /\ ConsistentOrder(<<a, b>>)
    /\ \/ a.currentRankScore > b.currentRankScore
       \/ /\ a.currentRankScore = b.currentRankScore
          /\ a.peakRankScore > b.peakRankScore
       \/ /\ a.currentRankScore = b.currentRankScore
          /\ a.peakRankScore = b.peakRankScore
          /\ DateParse(a.lastUpdated) >= DateParse(b.lastUpdated)

\* qs is ps in descending order of the key
IsRanking(qs, ps) ==
    /\ qs \in Arrangements(ps)
    /\ \A i, j \in 1..Len(qs) : i < j => KeyNotBelow(qs[i], qs[j])

\* C17 - the ranked sequence is a permutation of the collection in which
\* every entity's key (currentScore, peakScore, lastUpdated) is greater than
\* or equal to the key of every entity after it.
RankedByKey ==
    pc = "render" => IsRanking(sortedPlayers, players)

\* C18 - ranking is deterministic for a fixed collection: whatever the order
\* the entities of the collection come in, ties on all three keys included,
\* the ranked sequence is the same.
RankIgnoresInputOrder ==
    (pc = "render" /\ ConsistentOrder(players)) =>
        \A qs \in Arrangements(players) : SortPlayers(qs) = sortedPlayers

\* C19 - ranking is idempotent and pure: sortPlayers leaves the collection
\* it is given as it was, and ranking the ranked sequence again returns the
\* same sequence (for a collection whose scores are numbers and whose dates
\* are dates, the keys the comparator is an ordering of).
RankIdempotentAndPure ==
    [][(pc = "merge" /\ pc' = "render") =>
          /\ players' = players
          /\ ConsistentOrder(players) =>
                 SortPlayers(sortedPlayers') = sortedPlayers']_vars

\* a collection of two players or more has been ranked into another order
RankReorderedSeen ==
    /\ pc = "render"
    /\ Len(players) >= 2
    /\ ConsistentOrder(players)
    /\ sortedPlayers # players
    /\ SortPlayers(sortedPlayers) = sortedPlayers

-----------------------------------------------------------------------------
(* Step 1 of syncGame on its own: the configured message holds any text.    *)

\* the longest text, in fragments
MaxFragments == 3

\* the start marker a later version of the format would write
OtherVersionMarker == "[DATA:v2]"

\* pieces of a message: the markers, a cursor line, an entity line, a line
\* break, other text and the start marker of another version
DecodeFragments ==
    <<DATA_START_MARKER, DATA_END_MARKER, "LAST:5", "\n",
      "1|Turbo|Gold|2450|Master|2610|2026-02-14", "x", OtherVersionMarker>>

RECURSIVE Concat(_)
Concat(pieces) ==
    IF pieces = <<>> THEN "" ELSE Head(pieces) \o Concat(Tail(pieces))

\* the texts the configured message can hold; the empty one stands for a
\* message that was not found
DecodeTexts ==
    UNION {{Concat([k \in 1..n |-> DecodeFragments[f[k]]]) :
              f \in [1..n -> 1..Len(DecodeFragments)]} : n \in 0..MaxFragments}

\* syncGame at its entry, with a persistent message id configured
DecodeInit ==
    /\ scenario = 1
    /\ posted = 0
    /\ container \in DecodeTexts
    /\ configured = TRUE
    /\ storedCursor = Null
    /\ pc = "idle"
    /\ result = NoResult
    /\ IdleLocals
    /\ other = IdleProcess
    /\ run = SingleRun

DecodeSpec == DecodeInit /\ [][FetchState]_vars

\* the marker occurs in the text
Occurs(marker, text) ==
    \E i \in 1..Len(text) :
        /\ i + Len(marker) - 1 <= Len(text)
        /\ SubSeq(text, i, i + Len(marker) - 1) = marker

\* C20 - decoding a text in which the start marker or the end marker is
\* absent, the empty or missing text included, gives cursor none and an
\* empty entity collection (and decoding ends without an error, for every
\* text).
MarkerlessDecodesEmpty ==
    (pc = "fetch" /\ ~(Occurs(DATA_START_MARKER, container)
                        /\ Occurs(DATA_END_MARKER, container))) =>
        /\ currentState.lastProcessedMessageId = Null
        /\ currentState.players = <<>>

\* a text with the start marker, a cursor line and an entity line, and no
\* end marker, has been decoded
MarkerlessSeen ==
    /\ pc = "fetch"
    /\ container = DATA_START_MARKER \o "LAST:5"
                       \o "1|Turbo|Gold|2450|Master|2610|2026-02-14"
    /\ currentState = EmptyState

-----------------------------------------------------------------------------
(* The fields of an entity line (Spec).                                     *)

\* C21 - no field written into an entity line holds the delimiter: the rank
\* labels of every accepted update are free of it, and every line written
\* for an entity has exactly seven fields and decodes to the entity's fields.
NoDelimiterInFields ==
    /\ \A k \in 1..Len(successful) :
          /\ ~Occurs("|", successful[k].data.currentRank)
          /\ ~Occurs("|", successful[k].data.peakRank)
    /\ pc = "store" =>
          \A i \in 1..Len(sortedPlayers) :
              LET line == EncodePlayerLine(sortedPlayers[i])
              IN  /\ Len(Split(line, "|")) = 7
                  /\ DecodePlayerLine(line) = sortedPlayers[i]

\* C22 - a container whose data section carries a version tag other than v1
\* is rejected or flagged: what decoding it returns differs from what a
\* successful decode of a container without a data section returns.
UnknownVersionFlagged ==
    (/\ pc = "fetch"
     /\ Occurs(OtherVersionMarker, container)
     /\ Occurs("LAST:5" \o DATA_END_MARKER, container)
     /\ IndexOf(container, OtherVersionMarker) < IndexOf(container, DATA_END_MARKER)
     /\ ~Occurs(DATA_START_MARKER, container))
        => currentState # DecodeState("x")

-----------------------------------------------------------------------------
(* Step 3 of syncGame on its own: the batch parser over every small batch   *)
(* of messages.                                                             *)

\* the longest batch
MaxParseBatch == 3

\* messages of a channel: a command, another with spaces around it, chat,
\* and commands with a negative score, with a score that begins with digits,
\* with a score that is no number, with too few tokens, with the thirtieth
\* of February and with a thirteenth month
ParsePool ==
    {UpdateText("1", "Gold", "2450", "Master", "2610", "2026-02-14"),
     "  " \o UpdateText("2", "Iron", "15", "Gold", "1500", "2026-02-10") \o " ",
     ChatText,
     UpdateText("1", "Diamond", "-5", "Master", "2610", "2026-02-14"),
     UpdateText("1", "Diamond", "12abc", "Master", "2610", "2026-02-14"),
     UpdateText("1", "Diamond", "2450", "Master", "high", "2026-02-14"),
     "LB_UPDATE: <@1> Diamond 2450",
     UpdateText("1", "Gold", "2450", "Master", "2610", "2026-02-30"),
     UpdateText("1", "Gold", "2450", "Master", "2610", "2026-13-01")}

\* the batches: up to MaxParseBatch messages with consecutive ids
ParseBatches ==
    UNION {{[k \in 1..n |-> [id |-> MessageId(k), content |-> texts[k]]] :
              texts \in [1..n -> ParsePool]} : n \in 1..MaxParseBatch}

\* syncGame at the entry of step 3, on an empty leaderboard
ParseInit ==
    /\ scenario = 1
    /\ posted = 0
    /\ container = ""
    /\ configured = FALSE
    /\ storedCursor = Null
    /\ pc = "parse"
    /\ currentState = EmptyState
    /\ editing = FALSE
    /\ messages \in ParseBatches
    /\ successful = <<>>
    /\ failed = 0
    /\ skipped = 0
    /\ players = <<>>
    /\ updatedCount = 0
    /\ lastMessageId = Null
    /\ lastMerge = NoMerge
    /\ sortedPlayers = <<>>
    /\ rendered = NoRender
    /\ result = NoResult
    /\ other = IdleProcess
    /\ run = SingleRun

ParseSpec == ParseInit /\ [][ParseBatch]_vars

\* the trimmed content begins with the literal prefix
HasPrefix(content) ==
    LET t == Trim(content)
    IN  Len(t) >= 10 /\ SubSeq(t, 1, 10) = "LB_UPDATE:"

\* the whitespace-separated tokens after the prefix
TokensOf(content) ==
    LET t == Trim(content)
    IN  SplitWs(SubSeq(t, 11, Len(t)))

\* the places of the batch's messages without the prefix
SkippedPlaces == {k \in 1..Len(messages) : ~HasPrefix(messages[k].content)}

\* the batch has been parsed and no update of it has been merged yet
BatchParsed == pc = "merge" /\ lastMerge = NoMerge

\* C23 - the batch parser puts every message in exactly one bucket: skipped
\* when the trimmed content lacks the prefix, failed when it has the prefix
\* and the parser rejects it, successful otherwise; the three counts add up
\* to the number of messages and the successful records are in input order.
ThreeBuckets ==
    BatchParsed =>
        LET parsed   == BatchUpdates
            rejected == {k \in 1..Len(messages) \ SkippedPlaces : ~parsed[k].ok}
            accepted == {k \in 1..Len(messages) \ SkippedPlaces : parsed[k].ok}
        IN  /\ skipped = Cardinality(SkippedPlaces)
            /\ failed = Cardinality(rejected)
            /\ Len(successful) = Cardinality(accepted)
            /\ Len(successful) + failed + skipped = Len(messages)
            /\ \A j \in 1..Len(successful) :
                  LET k == Nth(accepted, j)
                  IN  /\ successful[j].messageId = messages[k].id
                      /\ successful[j].data = parsed[k]

\* a batch of chat, a command that is rejected and a command that is
\* accepted, in this order, has been parsed
ThreeBucketsSeen ==
    /\ BatchParsed
    /\ Len(messages) = 3
    /\ SkippedPlaces = {1} /\ skipped = 1
    /\ HasPrefix(messages[2].content) /\ failed = 1
    /\ Len(successful) = 1 /\ successful[1].messageId = messages[3].id

\* the places of the commands of the batch that carry the six tokens
CommandPlaces ==
    {k \in 1..Len(messages) :
        /\ HasPrefix(messages[k].content)
        /\ Len(TokensOf(messages[k].content)) >= 6}

\* the ids of the accepted records
SuccessfulIds == {successful[j].messageId : j \in 1..Len(successful)}

\* C24 - a command whose currentScore or peakScore token is not a base-10
\* integer numeral not below zero is rejected, so it is not among the
\* successful records (it is counted as failed); the scores of every
\* accepted record are the integers its tokens denote.
BadScoreRejected ==
    BatchParsed =>
        /\ \A k \in CommandPlaces :
              LET tokens == TokensOf(messages[k].content)
              IN  ~(IsDigits(tokens[3]) /\ IsDigits(tokens[5]))
                      => messages[k].id \notin SuccessfulIds
        /\ \A j \in 1..Len(successful) :
              \A k \in CommandPlaces :
                  messages[k].id = successful[j].messageId =>
                      LET tokens == TokensOf(messages[k].content)
                      IN  /\ IsDigits(tokens[3]) /\ IsDigits(tokens[5])
                          /\ successful[j].data.currentRankScore = DigitsValue(tokens[3])
                          /\ successful[j].data.peakRankScore = DigitsValue(tokens[5])

\* C25 - a command whose date token has the YYYY-MM-DD shape but names no
\* day of the calendar is rejected, and the date of every accepted record is
\* the calendar date of its token.
BadDateRejected ==
    BatchParsed =>
        /\ \A k \in CommandPlaces :
              LET token == TokensOf(messages[k].content)[6]
              IN  (MatchesDatePattern(token) /\ ~IsCalendarDate(token))
                      => messages[k].id \notin SuccessfulIds
        /\ \A j \in 1..Len(successful) :
              \A k \in CommandPlaces :
                  messages[k].id = successful[j].messageId =>
                      successful[j].data.lastUpdated = TokensOf(messages[k].content)[6]

-----------------------------------------------------------------------------
(* The persisted entities against the channel (Spec).                       *)

\* the upsert rule applied to the accepted updates, in order
RECURSIVE FoldUpserts(_, _)
FoldUpserts(ps, updates) ==
    IF updates = <<>> THEN ps
    ELSE LET data == Head(updates).data
             playerData == PlayerData(data, ResolveUsername(data.userId))
         IN  FoldUpserts(UpsertPlayer(ps, playerData).players, Tail(updates))

\* the messages of the channel with an id up to and including the cursor
UpToCursor(cursor) ==
    IF cursor = Null \/ ~IsDigits(cursor) THEN <<>>
    ELSE SubSeq(Channel, 1, IF DigitsValue(cursor) < posted
                            THEN DigitsValue(cursor) ELSE posted)

\* the entities the channel's updates up to the cursor amount to
ExpectedEntities(cursor) ==
    Entities(FoldUpserts(<<>>, ParseMultipleUpdates(UpToCursor(cursor)).successful))

\* a cycle on an uninitialized container has ended with a write, without
\* degradation and with fewer messages than the fetch ceiling
CleanFirstCycle ==
    /\ pc = "idle"
    /\ result.kind = "ok" /\ result.processed > 0
    /\ ~editing
    /\ ~rendered.truncated
    /\ Len(messages) < MaxMessagesPerSync

\* C26 - persisted-state consistency: after single-writer cycles without
\* degradation and below the fetch ceiling, starting from an uninitialized
\* container, the entities the container holds are exactly those that the
\* upsert rule gives when applied, in message order, to every accepted update
\* with an id up to and including the stored cursor (stated for the first
\* such cycle, the shortest of these sequences).
PersistedStateConsistent ==
    CleanFirstCycle =>
        /\ DecodeState(container).lastProcessedMessageId = storedCursor
        /\ Entities(DecodeState(container).players) = ExpectedEntities(storedCursor)

\* no rank label of ps holds the field delimiter
NoDelimiter(ps) ==
    \A i \in 1..Len(ps) :
        ~Occurs("|", ps[i].currentRank) /\ ~Occurs("|", ps[i].peakRank)

\* C27 - persistence fidelity: for a ranked collection of accepted entities
\* and a cursor, decoding the whole text the renderer returns, visible part
\* and data section, gives that cursor and exactly the entities the renderer
\* kept; nothing in the visible part is taken for a marker.
RenderedTextDecodes ==
    (/\ pc = "store"
     /\ ~rendered.truncated
     /\ DataModelHolds(sortedPlayers)
     /\ NoDelimiter(sortedPlayers)) =>
        LET decoded == DecodeState(rendered.content)
        IN  /\ decoded.lastProcessedMessageId = lastMessageId
            /\ decoded.players = Take(sortedPlayers, DefaultMaxPlayers)

-----------------------------------------------------------------------------
(* A cycle that finds nothing new (Spec).                                   *)

\* the channel holds no message after the cursor the cycle decoded
NothingToFetch ==
    LET after == currentState.lastProcessedMessageId
    IN  \/ after = Null /\ posted = 0
        \/ after # Null /\ IsDigits(after) /\ DigitsValue(after) >= posted

\* C28 - a cycle whose fetch returns no message writes nothing: it ends at
\* once, the container's text (so its cursor and entities) is as it was, and
\* the cycle reports zero processed, updated, failed and skipped.
EmptyFetchWritesNothing ==
    [][(pc = "fetch" /\ pc' # "fetch" /\ NothingToFetch) =>
          /\ pc' = "idle"
          /\ container' = container
          /\ storedCursor' = storedCursor
          /\ result' = [kind |-> "ok", processed |-> 0, updated |-> 0,
                        failed |-> 0, skipped |-> 0]]_vars

\* a cycle on a container that holds a player has found no new message
EmptyFetchSeen ==
    /\ pc = "idle"
    /\ editing
    /\ currentState.players # <<>>
    /\ messages = <<>>
    /\ result = [kind |-> "ok", processed |-> 0, updated |-> 0,
                 failed |-> 0, skipped |-> 0]
    /\ DecodeState(container) = currentState

-----------------------------------------------------------------------------
(* The frame of an upsert (MergeSpec).                                      *)

\* C29 - an upsert changes at most the entity with the update's id: every
\* other entity keeps its fields and its place, the collection grows by
\* exactly one when the id is new and keeps its size otherwise, and a stale
\* outcome leaves the whole collection as it was.
UpsertFrame ==
    lastMerge.outcome \in {"updated", "stale"} =>
        LET u      == lastMerge.update
            before == lastMerge.before
        IN  /\ \A j \in 1..Len(before) :
                  before[j].userId # u.userId =>
                      j <= Len(players) /\ players[j] = before[j]
            /\ Len(players) = IF PlacesOf(before, u.userId) = {}
                              THEN Len(before) + 1 ELSE Len(before)
            /\ Cardinality({j \in 1..Len(before) :
                               j <= Len(players) /\ players[j] # before[j]}) <= 1
            /\ lastMerge.outcome = "stale" => players = before

\* the second of two stored players has been replaced by an update
UpsertFrameSeen ==
    /\ lastMerge.outcome = "updated"
    /\ Len(lastMerge.before) = 2
    /\ PlacesOf(lastMerge.before, lastMerge.update.userId) = {2}
    /\ Len(players) = 2
    /\ players[1] = lastMerge.before[1]
    /\ players[2] = lastMerge.update
    /\ players[2] # lastMerge.before[2]

-----------------------------------------------------------------------------
(* Steps 6 and 7 of syncGame on their own: ranked collections of every      *)
(* small size, of entries short and long.                                   *)

\* the largest collection
MaxRanked == 8

\* player i of a ranked collection: scores fall with the place
RankedPlayer(i, id, rank) ==
    [userId |-> id, username |-> ResolveUsername(id),
     currentRank |-> rank, currentRankScore |-> 1000 - 10 * i,
     peakRank |-> rank, peakRankScore |-> 1000 - 10 * i,
     lastUpdated |-> "2026-02-14"]

\* ranked collections of 1 to MaxRanked players: the first has an ordinary id
\* or one so long that its entry alone exceeds the limit, and the ranks are
\* all short or all long
RankedCollections ==
    {[i \in 1..n |-> RankedPlayer(i, IF i = 1 THEN firstId ELSE NatToString(i), rank)] :
        n \in 1..MaxRanked,
        firstId \in {"1", Repeat("7", HugeIdLength)},
        rank \in {"Gold", LongRank}}

\* syncGame at the entry of step 6
TruncateInit ==
    /\ scenario = 1
    /\ posted = 0
    /\ container = ""
    /\ configured = FALSE
    /\ storedCursor = Null
    /\ pc = "render"
    /\ currentState = EmptyState
    /\ editing = FALSE
    /\ messages = <<>>
    /\ successful = <<>>
    /\ failed = 0
    /\ skipped = 0
    /\ sortedPlayers \in RankedCollections
    /\ players = sortedPlayers
    /\ updatedCount = Len(players)
    /\ lastMessageId \in {"5", "12"}
    /\ lastMerge = NoMerge
    /\ rendered = NoRender
    /\ result = NoResult
    /\ other = IdleProcess
    /\ run = SingleRun

TruncateNext == RenderStep \/ StoreStep

TruncateSpec == TruncateInit /\ [][TruncateNext]_vars

\* the whole part of the base-2 logarithm of n >= 1
RECURSIVE Log2Floor(_)
Log2Floor(n) == IF n <= 1 THEN 0 ELSE 1 + Log2Floor(n \div 2)

\* C30 - the degradation loop ends for every collection size n: each render
\* it attempts is of half the count of the one before (the first of half
\* of n), rounded down and above zero, there are at most floor(log2 n) of
\* them, and the degrader returns a content: the last attempt's when that one
\* fits, the render of the top three otherwise.
DegradationTerminates ==
    rendered.baseline > MAX_LENGTH =>
        LET n == Len(sortedPlayers)
            a == rendered.attempts
        IN  /\ Len(a) <= Log2Floor(n)
            /\ \A i \in 1..Len(a) :
                  /\ a[i] > 0
                  /\ a[i] = (IF i = 1 THEN n ELSE a[i - 1]) \div 2
                  /\ a[i] < (IF i = 1 THEN n ELSE a[i - 1])
            /\ rendered.truncated
            /\ rendered.content # ""
            /\ \/ /\ a # <<>>
                  /\ rendered.shownCount = a[Len(a)]
                  /\ Len(rendered.content) <= TruncateMaxLength
               \/ /\ Len(a) = Log2Floor(n)
                  /\ rendered.content =
                         RenderLeaderboard(GameName, Take(sortedPlayers, 3),
                                           lastMessageId, DefaultMaxPlayers)

\* the loop has run to its end on a collection of eight players, through
\* the counts four, two and one, and the fallback was returned
DegradationSeen ==
    /\ pc = "store"
    /\ Len(sortedPlayers) = 8
    /\ rendered.baseline > MAX_LENGTH
    /\ rendered.attempts = <<4, 2, 1>>
    /\ rendered.shownCount = 3

-----------------------------------------------------------------------------
(* syncAll: one run over several games, each with its own channel and its   *)
(* own webhook message.                                                     *)

\* the most games of a run
MaxGames == 2

\* the names of the games, in the order of this.games (the header of every
\* leaderboard is rendered with the one name GameName)
GameNames == <<GameName, "lol", "cs2", "apex">>

\* the container the first run on script 3 leaves (the render of its entity
\* with the cursor 1): the line of the entity has a field too many
MisreadContainer ==
    "## VALORANT LEADERBOARD\n\n## <@3>\n   Current: ## a|b ~ 10\n"
        \o "   Peak: ## c ~ 20\n   Last Update: 2026-02-14\n"
        \o "==================\n## Total Players: 1\n"
        \o "Updated: 02/14/2026, 06:00 PM UTC\n\n"
        \o "[DATA:v1]\nLAST:1\n3|Turbo|a|b|10|c|20|2026-02-14\n[/DATA]"

\* channel and container of a game at the start of a run: scripts 1, 3 and 7
\* with none or two of their messages posted and no container yet, and
\* script 3 with the container of an earlier run configured
GameStores ==
    {[scenario |-> s, posted |-> p, container |-> "", configured |-> FALSE,
      storedCursor |-> Null] : s \in {1, 3, 7}, p \in {0, 2}}
    \cup {[scenario |-> 3, posted |-> 2, container |-> MisreadContainer,
           configured |-> TRUE, storedCursor |-> MessageId(1)]}

\* channel and container of the game being synced
CurrentStore ==
    [scenario |-> scenario, posted |-> posted, container |-> container,
     configured |-> configured, storedCursor |-> storedCursor]

\* main: initialize() has loaded one to MaxGames games and syncAll starts
\* with the first
AllInit ==
    /\ \E n \in 1..MaxGames :
          \E st \in [1..n -> GameStores] :
              run = [SingleRun EXCEPT !.stores = st]
    /\ scenario = run.stores[1].scenario
    /\ posted = run.stores[1].posted
    /\ container = run.stores[1].container
    /\ configured = run.stores[1].configured
    /\ storedCursor = run.stores[1].storedCursor
    /\ pc = "idle"
    /\ IdleLocals
    /\ result = NoResult
    /\ other = IdleProcess

\* syncAll calls syncGame for the next game
SyncGameStart ==
    /\ run.index <= Len(run.stores)
    /\ result.kind = "none"
    /\ FetchState

\* the entry of results.games for the game just synced
GameResult ==
    [name |-> GameNames[run.index], kind |-> result.kind,
     processed |-> result.processed, updated |-> result.updated,
     failed |-> result.failed, skipped |-> result.skipped]

\* syncGame's locals are gone and the next game, if any, is the current one
LoadNextGame ==
    /\ IF run.index < Len(run.stores)
       THEN LET next == run.stores[run.index + 1]
            IN  /\ scenario' = next.scenario
                /\ posted' = next.posted
                /\ container' = next.container
                /\ configured' = next.configured
                /\ storedCursor' = next.storedCursor
       ELSE UNCHANGED <<scenario, posted, container, configured, storedCursor>>
    /\ result' = NoResult
    /\ currentState' = EmptyState
    /\ editing' = FALSE
    /\ messages' = <<>>
    /\ successful' = <<>>
    /\ failed' = 0
    /\ skipped' = 0
    /\ players' = <<>>
    /\ updatedCount' = 0
    /\ lastMessageId' = Null
    /\ lastMerge' = NoMerge
    /\ sortedPlayers' = <<>>
    /\ rendered' = NoRender
    /\ UNCHANGED <<pc, other>>

\* a loop without the catch: the error of a game leaves syncAll, no result is
\* pushed for it and no later game is synced
SyncAllStepNoCatch ==
    /\ pc = "idle"
    /\ run.index <= Len(run.stores)
    /\ result.kind \in {"ok", "error"}
    /\ IF result.kind = "ok"
       THEN run' = [run EXCEPT
                      !.index = @ + 1,
                      !.games = Append(@, GameResult),
                      !.stores[run.index] = CurrentStore,
                      !.totalProcessed = @ + result.processed,
                      !.totalUpdated = @ + result.updated,
                      !.totalFailed = @ + result.failed,
                      !.totalSkipped = @ + result.skipped]
       ELSE run' = [run EXCEPT !.index = Len(run.stores) + 1,
                               !.stores[run.index] = CurrentStore]
    /\ LoadNextGame

\* the rest of an iteration of syncAll's loop: syncGame has returned, or has
\* thrown and the error is caught; the game's entry is pushed on
\* results.games and the totals take the counts of a game that returned
SyncAllStep ==
    /\ pc = "idle"
    /\ run.index <= Len(run.stores)
    /\ result.kind \in {"ok", "error"}
    /\ run' = [run EXCEPT
                 !.index = @ + 1,
                 !.games = Append(@, GameResult),
                 !.stores[run.index] = CurrentStore,
                 !.totalProcessed = IF result.kind = "ok" THEN @ + result.processed ELSE @,
                 !.totalUpdated = IF result.kind = "ok" THEN @ + result.updated ELSE @,
                 !.totalFailed = IF result.kind = "ok" THEN @ + result.failed ELSE @,
                 !.totalSkipped = IF result.kind = "ok" THEN @ + result.skipped ELSE @]
    /\ LoadNextGame

AllNext ==
    \/ SyncGameStart
    \/ FetchNew
    \/ ParseBatch
    \/ MergeStep
    \/ SortStep
    \/ RenderStep
    \/ StoreStep
    \/ SyncAllStep

AllSpec == AllInit /\ [][AllNext]_vars

\* channel and container of game j, whether it is the one being synced or not
StoreOf(j) == IF j = run.index THEN CurrentStore ELSE run.stores[j]

\* C31 - the games are synced one after the other and in isolation: every
\* game synced so far has exactly one entry in the results, in the order of
\* the configuration, with its counts or its error; an error does not stop
\* the run, which goes on to the next game; and no step taken for one game
\* alters the channel or the container of another.
DomainsIsolated ==
    [][/\ Len(run'.games) = run'.index - 1
       /\ \A i \in 1..Len(run'.games) :
             /\ run'.games[i].name = GameNames[i]
             /\ run'.games[i].kind \in {"ok", "error"}
       /\ \A j \in 1..Len(run.stores) :
             j # run.index => StoreOf(j)' = StoreOf(j)]_vars

\* a run of two games is over: the first ended with an error and wrote no
\* container, the second was synced after it and wrote its own
IsolationSeen ==
    /\ Len(run.stores) = 2
    /\ run.index = 3
    /\ run.games[1].kind = "error"
    /\ run.stores[1].container = ""
    /\ run.games[2].kind = "ok"
    /\ run.games[2].processed > 0
    /\ run.stores[2].container # ""
    /\ run.totalProcessed = run.games[2].processed

====
